---- MODULE Spec2Model ----
(***************************************************************************)
(* Model of the knowledge-graph constructor's function-based engine:       *)
(*   src/src/domains/models.py      Triple and its field validator         *)
(*   src/src/builder/extraction.py  _normalize_triple, extract_from_text   *)
(*   src/src/builder/augmentation.py connectivity_strategy and             *)
(*                                  extract_connected_graph                *)
(*                                                                         *)
(* A Python str is a sequence of one-character strings, so that strip()    *)
(* is computed and not assumed.  A Python dict is a function whose DOMAIN  *)
(* is the set of keys present.  An Optional value is a sequence of length  *)
(* 0 (None) or 1.  A Pydantic Triple object is a record with all five      *)
(* fields.                                                                 *)
(***************************************************************************)
EXTENDS Integers, Sequences, FiniteSets, TLC

(***************************************************************************)
(* Bounds of the model.                                                    *)
(***************************************************************************)
MaxIter == 2      \* max_iterations is drawn from 0..MaxIter
MaxDisc == 1      \* max_disconnected is drawn from 0..MaxDisc
MaxResp == 2      \* a provider response holds at most MaxResp items
MaxInit == 2      \* a caller's initial_triples holds at most MaxInit items
MaxReg == 2       \* at most MaxReg register_domain calls are made after import
MaxAccess == 3    \* at most MaxAccess calls are made on one domain object
MaxIterRes == 1   \* iterations allowed in the calls made over any folder
MaxInitRes == 1   \* initial triples passed in the calls made over any folder
MaxStr == 2       \* a string given to Triple(...) has at most MaxStr characters
MaxJson == 1      \* a list of a JSON response holds at most MaxJson items
MaxKeys == 2      \* a dict of a JSON response holds at most MaxKeys keys
MaxGraph == 2     \* a triple list whose graph is analysed holds at most MaxGraph triples
MaxComponents == 31  \* a graph to list has at most MaxComponents components
MaxNodes == 11    \* a component to list has at most MaxNodes nodes
MaxKge == 3       \* the class-based engine starts from at most MaxKge triples

(***************************************************************************)
(* Python values.                                                          *)
(***************************************************************************)
None == << >>
Some(v) == << v >>

Whitespace == {" ", "\t", "\n"}

\* dict.get(key, default)
Get(d, key, default) == IF key \in DOMAIN d THEN d[key] ELSE default

\* bool(x) of a str or a list: the empty one is falsy
Truthy(x) == x # << >>

\* bool(x) of an Optional[list]: None and the empty list are falsy
TruthyOpt(o) == o # None /\ Truthy(o[1])

RECURSIVE lstrip(_)
lstrip(s) ==
    IF s = << >> THEN s
    ELSE IF Head(s) \in Whitespace THEN lstrip(Tail(s)) ELSE s

RECURSIVE rstrip(_)
rstrip(s) ==
    IF s = << >> THEN s
    ELSE IF s[Len(s)] \in Whitespace THEN rstrip(SubSeq(s, 1, Len(s) - 1)) ELSE s

\* str.strip()
strip(s) == rstrip(lstrip(s))

(***************************************************************************)
(* domains/models.py: InferenceType and Triple.                            *)
(***************************************************************************)
EXPLICIT == "explicit"
CONTEXTUAL == "contextual"
InferenceType == {EXPLICIT, CONTEXTUAL}

\* The outcome of a call that may raise: [ok |-> FALSE] is the exception.
Raised == [ok |-> FALSE]
Returned(v) == [ok |-> TRUE, val |-> v]

\* Faulty variant of must_not_be_empty: the value is checked but stored as given.
must_not_be_empty_nostrip(v) ==
    IF ~Truthy(v) \/ ~Truthy(strip(v)) THEN Raised ELSE Returned(v)

\* Faulty variant of must_not_be_empty: only the empty string is rejected.
must_not_be_empty_noblank(v) ==
    IF ~Truthy(v) THEN Raised ELSE Returned(strip(v))

\* Triple.must_not_be_empty: the validator of head, relation and tail
must_not_be_empty(v) ==
    IF ~Truthy(v) \/ ~Truthy(strip(v)) THEN Raised ELSE Returned(strip(v))

\* Triple(**kw): head, relation and tail are required and validated;
\* inference defaults to explicit and must be a member of InferenceType;
\* justification defaults to None; any other key is ignored.
Triple(kw) ==
    IF ~({"head", "relation", "tail"} \subseteq DOMAIN kw) THEN Raised
    ELSE LET h == must_not_be_empty(kw["head"])
             r == must_not_be_empty(kw["relation"])
             t == must_not_be_empty(kw["tail"])
             inf == Get(kw, "inference", EXPLICIT)
         IN IF ~h.ok \/ ~r.ok \/ ~t.ok \/ inf \notin InferenceType THEN Raised
            ELSE Returned([head |-> h.val, relation |-> r.val, tail |-> t.val,
                           inference |-> inf,
                           justification |-> Get(kw, "justification", None)])

\* Faulty variant of model_dump: the justification is left out.
model_dump_nojust(t) ==
    [head |-> t.head, relation |-> t.relation, tail |-> t.tail,
     inference |-> t.inference]

\* Triple.model_dump(): the dict of the five fields
model_dump(t) ==
    [head |-> t.head, relation |-> t.relation, tail |-> t.tail,
     inference |-> t.inference, justification |-> t.justification]

\* Triple.__eq__, which Triple inherits from BaseModel: same class and the
\* same value in every field
Triple_eq(a, b) ==
    /\ a.head = b.head
    /\ a.relation = b.relation
    /\ a.tail = b.tail
    /\ a.inference = b.inference
    /\ a.justification = b.justification

(***************************************************************************)
(* builder/extraction.py                                                   *)
(***************************************************************************)
\* _normalize_triple: Some(Triple) or None
_normalize_triple(raw_triple) ==
    LET res == Triple([head |-> Get(raw_triple, "head", << >>),
                       relation |-> Get(raw_triple, "relation", << >>),
                       tail |-> Get(raw_triple, "tail", << >>),
                       inference |-> Get(raw_triple, "inference", EXPLICIT),
                       justification |-> Get(raw_triple, "justification", None)])
    IN IF res.ok THEN Some(res.val) ELSE None

\* Faulty variant of NormalizeAll: the loop ends at the first invalid item.
RECURSIVE NormalizeAll_stop(_)
NormalizeAll_stop(raw_triples) ==
    IF raw_triples = << >> THEN << >>
    ELSE LET normalized == _normalize_triple(Head(raw_triples))
         IN IF normalized = None THEN << >>
            ELSE normalized \o NormalizeAll_stop(Tail(raw_triples))

\* The loop of extract_from_text over the provider's raw_triples
RECURSIVE NormalizeAll(_)
NormalizeAll(raw_triples) ==
    IF raw_triples = << >> THEN << >>
    ELSE _normalize_triple(Head(raw_triples)) \o NormalizeAll(Tail(raw_triples))

(***************************************************************************)
(* builder/augmentation.py: the graph utilities.                           *)
(***************************************************************************)
\* _build_graph_from_triples: nx.DiGraph with one edge per (head, tail)
_build_graph_from_triples(ts) ==
    LET used == {k \in 1..Len(ts) : Truthy(ts[k].head) /\ Truthy(ts[k].tail)}
    IN [nodes |-> {ts[k].head : k \in used} \cup {ts[k].tail : k \in used},
        edges |-> {<<ts[k].head, ts[k].tail>> : k \in used}]

\* Faulty variant of Neighbours: edges are followed from head to tail only.
Neighbours_forward(G, seen) == {e[2] : e \in {d \in G.edges : d[1] \in seen}}

\* The nodes one edge away from a node of seen, in either direction
Neighbours(G, seen) ==
    {e[2] : e \in {d \in G.edges : d[1] \in seen}}
        \cup {e[1] : e \in {d \in G.edges : d[2] \in seen}}

\* The breadth-first search of nx.weakly_connected_components from seen
RECURSIVE Component(_, _)
Component(G, seen) ==
    LET next == seen \cup Neighbours(G, seen)
    IN IF next = seen THEN seen ELSE Component(G, next)

\* nx.weakly_connected_components(G): a search from every node not yet seen
RECURSIVE ComponentsFrom(_, _)
ComponentsFrom(G, unseen) ==
    IF unseen = {} THEN {}
    ELSE LET c == Component(G, {CHOOSE n \in unseen : TRUE})
         IN {c} \cup ComponentsFrom(G, unseen \ c)

weakly_connected_components(G) == ComponentsFrom(G, G.nodes)

\* len(list(nx.weakly_connected_components(_build_graph_from_triples(ts))))
CountComponents(ts) ==
    Cardinality(weakly_connected_components(_build_graph_from_triples(ts)))

\* The module-level registry after import: only "connectivity" is registered
STRATEGIES == {"connectivity"}

\* list_strategies()
list_strategies == STRATEGIES

\* Faulty variant of TargetReached: the loop breaks only below the target.
TargetReached_strict(n, maxd) == n < maxd

\* The test `len(components) <= max_disconnected` that breaks the loop
TargetReached(n, maxd) == n <= maxd

\* Faulty variant of ForceContextual: the provider's inference is kept.
ForceContextual_keep(t_dict) == t_dict

\* t_dict["inference"] = InferenceType.CONTEXTUAL
ForceContextual(t_dict) ==
    [k \in DOMAIN t_dict \cup {"inference"} |->
        IF k = "inference" THEN CONTEXTUAL ELSE t_dict[k]]

\* The body of the inner loop: Some(Triple) appended, or None when skipped
AugmentOne(t_raw) ==
    LET res == Triple(ForceContextual(t_raw))
    IN IF res.ok THEN Some(res.val) ELSE None

\* new_triples of one iteration, from the provider's new_triples_raw
RECURSIVE AugmentAll(_)
AugmentAll(new_triples_raw) ==
    IF new_triples_raw = << >> THEN << >>
    ELSE AugmentOne(Head(new_triples_raw)) \o AugmentAll(Tail(new_triples_raw))

\* Faulty variant of Extend: the new triples are put in front.
Extend_front(all, new) == new \o all

\* Faulty variant of Extend: the concatenation is made and not kept
\* (all_triples + new_triples with no assignment).
Extend_dropped(all, new) == all

\* all_triples.extend(new_triples)
Extend(all, new) == all \o new

\* One element of initial_triples in the pre-phase of extract_connected_graph
ValidateOne(t) ==
    IF t.cls = "Triple" THEN Some(t.fields)
    ELSE LET res == Triple(t.fields)
         IN IF res.ok THEN Some(res.val) ELSE None

\* validated_triples of the pre-phase
RECURSIVE ValidateInitial(_)
ValidateInitial(items) ==
    IF items = << >> THEN << >>
    ELSE ValidateOne(Head(items)) \o ValidateInitial(Tail(items))

\* The test `if initial_triples:` of the pre-phase
InitialProvided(initial) == TruthyOpt(initial)

(***************************************************************************)
(* The inputs the engine is run on.                                        *)
(***************************************************************************)
\* A Triple object a caller holds (constructed, hence validated)
PyTriple(t) == [cls |-> "Triple", fields |-> t]
\* A dict a caller loaded from JSON
PyDict(d) == [cls |-> "dict", fields |-> d]

\* Raw items a provider may return: a bridge between B and C with padding
\* and an explicit tag, a triple (A, r, B) with no inference and a
\* justification, a contextual item whose tail is blank, an item with no head
Candidates ==
    { [head |-> <<" ", "B">>, relation |-> <<"r">>, tail |-> <<"C", " ">>,
       inference |-> EXPLICIT],
      [head |-> <<"A">>, relation |-> <<"r">>, tail |-> <<"B">>,
       justification |-> Some(<<"j">>)],
      [head |-> <<"D">>, relation |-> <<"r">>, tail |-> <<" ">>,
       inference |-> CONTEXTUAL],
      [relation |-> <<"r">>, tail |-> <<"C">>] }

\* Elements a caller may pass in initial_triples: a Triple object, a valid
\* dict with padding, a dict with no head
InitItems ==
    { PyTriple([head |-> <<"A">>, relation |-> <<"r">>, tail |-> <<"B">>,
                inference |-> EXPLICIT, justification |-> None]),
      PyDict([head |-> <<"\t", "C">>, relation |-> <<"r", " ">>,
              tail |-> <<"D">>, inference |-> EXPLICIT]),
      PyDict([relation |-> <<"r">>, tail |-> <<"D">>]) }

\* The lists of at most n elements of S
SeqsUpTo(S, n) == UNION {[1..m -> S] : m \in 0..n}

\* The lists of at most n elements of S that repeat no element
DistinctSeqsUpTo(S, n) ==
    {s \in SeqsUpTo(S, n) : \A a, b \in DOMAIN s : a # b => s[a] # s[b]}

\* What one client.extract call may return: a response names a candidate
\* at most once
Responses == DistinctSeqsUpTo(Candidates, MaxResp)
InitialLists == SeqsUpTo(InitItems, MaxInit)
StrategyNames == {"connectivity", "centrality"}

(***************************************************************************)
(* The state of one call of extract_connected_graph.                       *)
(***************************************************************************)
VARIABLES
    pc,                    \* "idle", "dispatch", "calling", "returned", "raised"
    initial_triples,       \* the caller's argument: None or Some(list)
    max_disconnected,      \* argument
    max_iterations,        \* argument
    augmentation_strategy, \* argument
    triples,               \* the starting set handed to the strategy
    all_triples,           \* connectivity_strategy's accumulated list
    iterations_data,       \* connectivity_strategy's iteration records
    error_occurred,        \* connectivity_strategy's flag
    i,                     \* the loop variable of `for i in range(...)`
    result,                \* None, or Some of the returned (triples, metadata)
    error,                 \* the exception that reached the caller, or ""
    error_message,         \* None, or Some(what the exception's message carries)
    extraction_calls,      \* client.extract calls made by extract_from_text
    augmentation_calls,    \* client.extract calls made by the strategy
    last_call,             \* None, or Some(outcome of the last client.extract)
    appended,              \* new_triples of each successful iteration, in order
    kw,                    \* the keyword arguments of one Triple(...) call
    built,                 \* None, or Some(outcome of Triple(**kw))
    other_kw,              \* the keyword arguments of a second Triple(...) call
    equal,                 \* None, or Some(Triple(**kw) == Triple(**other_kw))
    rebuilt,               \* None, or Some(the triple dumped and validated again)
    text,                  \* extract_from_text's argument
    record_id,             \* extract_from_text's argument: None or Some(str)
    request,               \* None, or Some(record of the prompt sent)
    _DOMAIN_REGISTRY,      \* the registry dict: its (name, class) items in key order
    register_log,          \* every register_domain call so far, in order
    domain_call,           \* None, or Some(the last registry call and its outcome)
    registrations,         \* the number of register_domain calls made after import
    files,                 \* the resource files under the domain's root directory
    domain,                \* None, or Some(the KnowledgeDomain object)
    domain_components, \* the DomainComponent objects made so far, by identity
    reads,                 \* how many times each resource file has been read
    aug_returned,          \* the components get_augmentation has returned, per strategy
    access,                \* None, or Some(the last call on the domain and its outcome)
    accesses,              \* the number of calls made on the domain
    client_kwargs,         \* the fields the user set in ClientConfig(...): None when left unset
    client_config,         \* None, or Some(the ClientConfig object)
    client,                \* None, or Some(outcome of creating the client)
    response_data,         \* None, or Some(the parsed response, as the call leaves it)
    json_provider,         \* the implementation whose generate_json ran
    json_items,            \* what generate_json returned
    provider_call,         \* None, or Some(the provider method that was called)
    http_requests,         \* the requests the call sent to the model server
    call_outcome,          \* None, or Some(how the call ended)
    graph_triples,         \* the triple list whose components are counted
    component_count,       \* None, or Some(the nodes of the graph and the number of its components)
    prompt_components,     \* the components to list, each the list of its nodes
    listing,               \* None, or Some(the listing and the function that made it)
    kge_pc,                \* where KnowledgeGraphExtractor.extract_connected_graph is
    kge_args,              \* its max_disconnected and max_iterations
    kge_triples,           \* its local triples
    num_components,        \* its local num_components
    iteration,             \* its local iteration
    kge_metadata,          \* its local metadata, all_augmentation_triples in augmentation_triples
    generate_json_calls    \* the client.generate_json calls it has made

vars == <<pc, initial_triples, max_disconnected, max_iterations,
          augmentation_strategy, triples, all_triples, iterations_data,
          error_occurred, i, result, error, error_message, extraction_calls,
          augmentation_calls, last_call, appended, kw, built,
          other_kw, equal, rebuilt, text, record_id, request,
          _DOMAIN_REGISTRY, register_log, domain_call, registrations,
          files, domain, domain_components, reads, aug_returned, access, accesses,
          client_kwargs, client_config, client,
          response_data, json_provider, json_items,
          provider_call, http_requests, call_outcome,
          graph_triples, component_count,
          prompt_components, listing,
          kge_pc, kge_args, kge_triples, num_components, iteration, kge_metadata, generate_json_calls>>

args == <<initial_triples, max_disconnected, max_iterations,
          augmentation_strategy>>
loopvars == <<all_triples, iterations_data, error_occurred, i, appended>>
\* The variables of extract_connected_graph and its strategy
engineVars == <<pc, args, loopvars, triples, result, error, error_message,
                extraction_calls, augmentation_calls, last_call>>
pairVars == <<other_kw, equal, rebuilt>>
tripleVars == <<kw, built, pairVars>>
extractVars == <<text, record_id, request>>
registryVars == <<_DOMAIN_REGISTRY, register_log, domain_call, registrations>>
domainVars == <<files, domain, domain_components, reads, aug_returned, access,
                accesses>>
clientVars == <<client_kwargs, client_config, client>>
\* What the actions of extract_connected_graph never touch
jsonVars == <<response_data, json_provider, json_items>>
providerVars == <<provider_call, http_requests, call_outcome>>
graphVars == <<graph_triples, component_count>>
formatVars == <<prompt_components, listing>>
extractorVars == <<kge_pc, kge_args, kge_triples, num_components, iteration, kge_metadata, generate_json_calls>>
libVars == <<tripleVars, extractVars, registryVars, clientVars, jsonVars, providerVars, graphVars, formatVars, extractorVars>>
\* What the actions of one part never touch of the other parts
othersTriple == <<extractVars, registryVars, domainVars, clientVars, jsonVars, providerVars, graphVars, formatVars, extractorVars>>
othersExtract == <<tripleVars, registryVars, clientVars, jsonVars, providerVars, graphVars, formatVars, extractorVars>>
othersRegistry == <<tripleVars, extractVars, domainVars, clientVars, jsonVars, providerVars, graphVars, formatVars, extractorVars>>
othersDomain == <<tripleVars, extractVars, registryVars, clientVars, jsonVars, providerVars, graphVars, formatVars, extractorVars>>
othersClient == <<tripleVars, extractVars, registryVars, domainVars, jsonVars, providerVars, graphVars, formatVars, extractorVars>>
othersJson == <<tripleVars, extractVars, registryVars, clientVars, domainVars, providerVars, graphVars, formatVars, extractorVars>>
othersProvider == <<tripleVars, extractVars, registryVars, clientVars, jsonVars, domainVars, graphVars, formatVars, extractorVars>>
othersGraph == <<tripleVars, extractVars, registryVars, clientVars, jsonVars, providerVars, domainVars, formatVars, extractorVars>>
othersFormat == <<tripleVars, extractVars, registryVars, clientVars, jsonVars, providerVars, graphVars, domainVars, extractorVars>>
othersExtractor == <<tripleVars, extractVars, registryVars, clientVars, jsonVars, providerVars, graphVars, formatVars, domainVars>>

InitEngine ==
    /\ pc = "idle"
    /\ initial_triples = None
    /\ max_disconnected = 0
    /\ max_iterations = 0
    /\ augmentation_strategy = "connectivity"
    /\ triples = << >>
    /\ all_triples = << >>
    /\ iterations_data = << >>
    /\ error_occurred = FALSE
    /\ i = 0
    /\ result = None
    /\ error = ""
    /\ error_message = None
    /\ extraction_calls = 0
    /\ augmentation_calls = 0
    /\ last_call = None
    /\ appended = << >>

\* No Triple(...) call of its own is under way
(***************************************************************************)
(* domains/base.py: KnowledgeDomain and DomainComponent.  A resource file  *)
(* is a record: exists, and for a prompt file its text, for a JSON file    *)
(* the outcome of json.load on it.  A JSON value is None for null and      *)
(* Some(list) for a list.  A DomainComponent object is known by its place  *)
(* in domain_components.                                                   *)
(***************************************************************************)
Paths == {"ext_prompt", "ext_examples", "aug_prompt", "aug_examples"}
AugStrategies == {"connectivity", "enrichment"}

\* A prompt file: missing, or present with padded text
PromptFiles == {[exists |-> FALSE], [exists |-> TRUE, text |-> <<" ", "p", "\n">>]}

\* An examples.json: absent, malformed, holding null, holding a list
ExamplesFiles ==
    {[exists |-> FALSE],
     [exists |-> TRUE, parsed |-> Raised],
     [exists |-> TRUE, parsed |-> Returned(None)],
     [exists |-> TRUE, parsed |-> Returned(Some(<<"ex">>))]}

\* The files under a domain's root; without the strategy folder
\* augmentation/connectivity there is no file in it
FileStates ==
    {f \in [ext_prompt : PromptFiles, ext_examples : ExamplesFiles,
            aug_dir : BOOLEAN, aug_prompt : PromptFiles,
            aug_examples : ExamplesFiles] :
        ~f.aug_dir => (~f.aug_prompt.exists /\ ~f.aug_examples.exists)}

\* A domain folder with every file present and well-formed
GoodFiles ==
    [ext_prompt |-> [exists |-> TRUE, text |-> <<" ", "p", "\n">>],
     ext_examples |-> [exists |-> TRUE, parsed |-> Returned(Some(<<"ex">>))],
     aug_dir |-> TRUE,
     aug_prompt |-> [exists |-> TRUE, text |-> <<" ", "p", "\n">>],
     aug_examples |-> [exists |-> TRUE, parsed |-> Returned(Some(<<"ex">>))]]

\* raise DomainResourceError(...)
ResourceError == [ok |-> FALSE, error |-> "DomainResourceError"]

\* DomainComponent.__init__
DomainComponent(prompt_path, examples_path) ==
    [_prompt_path |-> prompt_path, _examples_path |-> examples_path,
     _prompt |-> None, _examples |-> None]

\* KnowledgeDomain.__init__: the extraction component is made, the
\* augmentation cache is empty, no file is opened
KnowledgeDomain_init ==
    [domain |-> [extraction |-> 1, _augmentation_cache |-> << >>],
     components |-> <<DomainComponent("ext_prompt", "ext_examples")>>]

\* KnowledgeDomain._load_text
_load_text(file) ==
    IF ~file.exists THEN ResourceError ELSE Returned(strip(file.text))

\* KnowledgeDomain._load_json
_load_json(file) ==
    IF ~file.exists THEN ResourceError
    ELSE IF ~file.parsed.ok THEN ResourceError
    ELSE Returned(file.parsed.val)

\* DomainComponent.prompt: the outcome, the component afterwards and the
\* files that were read
prompt(c, fs) ==
    IF c._prompt = None
    THEN LET file == fs[c._prompt_path]
             r == _load_text(file)
         IN [outcome |-> r,
             comp |-> IF r.ok THEN [c EXCEPT !._prompt = Some(r.val)] ELSE c,
             read |-> IF file.exists THEN {c._prompt_path} ELSE {}]
    ELSE [outcome |-> Returned(c._prompt[1]), comp |-> c, read |-> {}]

\* DomainComponent.examples: the outcome (a JSON value), the component
\* afterwards and the files that were read
examples(c, fs) ==
    IF c._examples = None
    THEN LET file == fs[c._examples_path]
             r == IF file.exists THEN _load_json(file)
                  ELSE Returned(Some(<< >>))
         IN [outcome |-> r,
             comp |-> IF r.ok THEN [c EXCEPT !._examples = r.val] ELSE c,
             read |-> IF file.exists THEN {c._examples_path} ELSE {}]
    ELSE [outcome |-> Returned(c._examples), comp |-> c, read |-> {}]

\* strategy_dir.exists(): only augmentation/connectivity may be there
DirExists(fs, strategy) == strategy = "connectivity" /\ fs.aug_dir

\* KnowledgeDomain.get_augmentation: the outcome (a component), the domain
\* and the component objects afterwards
get_augmentation(dom, comps, fs, strategy) ==
    IF strategy \in DOMAIN dom._augmentation_cache
    THEN [outcome |-> Returned(dom._augmentation_cache[strategy]),
          domain |-> dom, components |-> comps]
    ELSE IF ~DirExists(fs, strategy)
    THEN [outcome |-> ResourceError, domain |-> dom, components |-> comps]
    ELSE LET cache == dom._augmentation_cache
         IN [outcome |-> Returned(Len(comps) + 1),
             domain |-> [dom EXCEPT !._augmentation_cache =
                           [st \in DOMAIN cache \cup {strategy} |->
                              IF st = strategy THEN Len(comps) + 1
                              ELSE cache[st]]],
             components |-> Append(comps,
                                   DomainComponent("aug_prompt", "aug_examples"))]

\* The read counts after the files of set read were read once more
CountReads(rd, read) ==
    [path \in Paths |-> IF path \in read THEN rd[path] + 1 ELSE rd[path]]

\* What extract_from_text and connectivity_strategy load of a component:
\* its prompt, then its examples, which are iterated (a null is no list)
LoadResources(c, fs) ==
    LET p == prompt(c, fs)
        e == examples(p.comp, fs)
    IN IF ~p.outcome.ok
       THEN [ok |-> FALSE, error |-> p.outcome.error, comp |-> p.comp,
             read |-> p.read]
       ELSE IF ~e.outcome.ok
       THEN [ok |-> FALSE, error |-> e.outcome.error, comp |-> e.comp,
             read |-> p.read \cup e.read]
       ELSE IF e.outcome.val = None
       THEN [ok |-> FALSE, error |-> "TypeError", comp |-> e.comp,
             read |-> p.read \cup e.read]
       ELSE [ok |-> TRUE, comp |-> e.comp, read |-> p.read \cup e.read]

\* The domain object handed to the engine: constructed, nothing loaded, every
\* file in place
IdleDomain ==
    /\ files = GoodFiles
    /\ domain = Some(KnowledgeDomain_init.domain)
    /\ domain_components = KnowledgeDomain_init.components
    /\ reads = [path \in Paths |-> 0]
    /\ aug_returned = [st \in AugStrategies |-> {}]
    /\ access = None
    /\ accesses = 0

\* KnowledgeGraphExtractor.extract_connected_graph is not running
IdleExtractor ==
    /\ kge_pc = "idle"
    /\ kge_args = [max_disconnected |-> 0, max_iterations |-> 0]
    /\ kge_triples = << >>
    /\ num_components = 0
    /\ iteration = 0
    /\ kge_metadata = << >>
    /\ generate_json_calls = 0

\* No component listing is being made
IdleFormat ==
    /\ prompt_components = << >>
    /\ listing = None

\* No graph is being analysed
IdleGraph ==
    /\ graph_triples = << >>
    /\ component_count = None

\* No provider method is being called
IdleProvider ==
    /\ provider_call = None
    /\ http_requests = 0
    /\ call_outcome = None

\* No response is being parsed
IdleJson ==
    /\ response_data = None
    /\ json_provider = None
    /\ json_items = None

\* No client is being configured
IdleClient ==
    /\ client_kwargs = << >>
    /\ client_config = None
    /\ client = None

\* The registry once src.domains is imported: @domain("legal") and
\* @domain("default") have run, in that order
ImportedDomains ==
    << [name |-> "legal", cls |-> "LegalDomain"],
       [name |-> "default", cls |-> "DefaultDomain"] >>

IdleRegistry ==
    /\ _DOMAIN_REGISTRY = ImportedDomains
    /\ register_log = ImportedDomains
    /\ domain_call = None
    /\ registrations = 0

IdlePair ==
    /\ other_kw = << >>
    /\ equal = None
    /\ rebuilt = None

IdleTriple ==
    /\ kw = << >>
    /\ built = None
    /\ IdlePair

\* The text the engine is run on; extract_from_text is not called on its own
IdleExtract ==
    /\ text = <<"t">>
    /\ record_id = None
    /\ request = None

Init ==
    /\ InitEngine
    /\ IdleExtractor
    /\ IdleFormat
    /\ IdleGraph
    /\ IdleProvider
    /\ IdleJson
    /\ IdleClient
    /\ IdleDomain
    /\ IdleRegistry
    /\ IdleTriple
    /\ IdleExtract

\* The caller's choice of arguments
SetArgs(initial, maxd, maxi, name) ==
    /\ initial_triples' = initial
    /\ max_disconnected' = maxd
    /\ max_iterations' = maxi
    /\ augmentation_strategy' = name

\* extract_from_text on the provider's raw_triples
extract_from_text(raw_triples) == NormalizeAll(raw_triples)

\* extract_from_text's loads: domain.extraction.prompt, then the examples
\* in _create_examples
ExtractionLoad ==
    LoadResources(domain_components[domain[1].extraction], files)

StoreExtractionLoad ==
    /\ domain_components' =
         [domain_components EXCEPT ![domain[1].extraction] = ExtractionLoad.comp]
    /\ reads' = CountReads(reads, ExtractionLoad.read)
    /\ UNCHANGED <<files, domain, aug_returned, access, accesses>>

\* The loads succeed and extract_from_text goes on to its provider call
LoadExtractionResources ==
    /\ ExtractionLoad.ok
    /\ StoreExtractionLoad

\* connectivity_strategy's loads, ahead of its loop and of its try:
\* domain.get_augmentation("connectivity"), the prompt, the examples
AugmentationLoad ==
    LET g == get_augmentation(domain[1], domain_components, files,
                              "connectivity")
    IN IF ~g.outcome.ok
       THEN [ok |-> FALSE, error |-> g.outcome.error, domain |-> g.domain,
             components |-> g.components, read |-> {}, returned |-> {}]
       ELSE LET id == g.outcome.val
                l == LoadResources(g.components[id], files)
            IN [ok |-> l.ok, error |-> IF l.ok THEN "" ELSE l.error,
                domain |-> g.domain,
                components |-> [g.components EXCEPT ![id] = l.comp],
                read |-> l.read, returned |-> {id}]

StoreAugmentationLoad ==
    /\ domain' = Some(AugmentationLoad.domain)
    /\ domain_components' = AugmentationLoad.components
    /\ reads' = CountReads(reads, AugmentationLoad.read)
    /\ aug_returned' = [aug_returned EXCEPT
                          !["connectivity"] = @ \cup AugmentationLoad.returned]
    /\ UNCHANGED <<files, access, accesses>>

\* The loads succeed and connectivity_strategy goes on to its loop
LoadAugmentationResources ==
    /\ AugmentationLoad.ok
    /\ StoreAugmentationLoad

\* extract_connected_graph, pre-phase with initial_triples truthy:
\* every element is validated, no provider call
PrePhaseValidate ==
    /\ pc = "idle"
    /\ \E initial \in {Some(l) : l \in InitialLists}, maxd \in 0..MaxDisc,
          maxi \in 0..MaxIter, name \in StrategyNames :
        /\ InitialProvided(initial)
        /\ SetArgs(initial, maxd, maxi, name)
        /\ triples' = ValidateInitial(initial[1])
    /\ pc' = "dispatch"
    /\ UNCHANGED <<libVars, domainVars, error_message, loopvars, result, error, extraction_calls,
                   augmentation_calls, last_call>>

\* extract_connected_graph, pre-phase otherwise: extract_from_text, whose
\* client.extract returns
PrePhaseExtract ==
    /\ pc = "idle"
    /\ LoadExtractionResources
    /\ \E initial \in {None} \cup {Some(l) : l \in InitialLists},
          maxd \in 0..MaxDisc, maxi \in 0..MaxIter, name \in StrategyNames,
          raw_triples \in Responses :
        /\ ~InitialProvided(initial)
        /\ SetArgs(initial, maxd, maxi, name)
        /\ triples' = extract_from_text(raw_triples)
        /\ last_call' = Some(Returned(raw_triples))
    /\ extraction_calls' = extraction_calls + 1
    /\ pc' = "dispatch"
    /\ UNCHANGED <<libVars, error_message, loopvars, result, error, augmentation_calls>>

\* Faulty variant of PrePhaseExtractRaises: the exception is swallowed and the call
\* goes on with no triples.
PrePhaseExtractRaises_swallow ==
    /\ pc = "idle"
    /\ LoadExtractionResources
    /\ \E initial \in {None} \cup {Some(l) : l \in InitialLists},
          maxd \in 0..MaxDisc, maxi \in 0..MaxIter, name \in StrategyNames :
        /\ ~InitialProvided(initial)
        /\ SetArgs(initial, maxd, maxi, name)
    /\ last_call' = Some(Raised)
    /\ extraction_calls' = extraction_calls + 1
    /\ triples' = << >>
    /\ pc' = "dispatch"
    /\ UNCHANGED <<libVars, error_message, loopvars, error, result, augmentation_calls>>

\* extract_connected_graph, pre-phase otherwise: client.extract raises inside
\* extract_from_text, which has no handler
PrePhaseExtractRaises ==
    /\ pc = "idle"
    /\ LoadExtractionResources
    /\ \E initial \in {None} \cup {Some(l) : l \in InitialLists},
          maxd \in 0..MaxDisc, maxi \in 0..MaxIter, name \in StrategyNames :
        /\ ~InitialProvided(initial)
        /\ SetArgs(initial, maxd, maxi, name)
    /\ last_call' = Some(Raised)
    /\ extraction_calls' = extraction_calls + 1
    /\ error' = "ProviderError"
    /\ pc' = "raised"
    /\ UNCHANGED <<libVars, error_message, loopvars, triples, result, augmentation_calls>>

\* Faulty variant of Finish: final_components is the count of the last graph
\* the loop built, the starting triples', not of a graph built at the end.
Finish_stale(all, iters, err) ==
    /\ result' = Some([triples |-> all,
                       metadata |-> [strategy |-> "connectivity",
                                     iterations |-> iters,
                                     final_components |-> CountComponents(triples),
                                     partial_result |-> err]])
    /\ pc' = "returned"

\* The end of connectivity_strategy: final graph, metadata, return
Finish(all, iters, err) ==
    /\ result' = Some([triples |-> all,
                       metadata |-> [strategy |-> "connectivity",
                                     iterations |-> iters,
                                     final_components |-> CountComponents(all),
                                     partial_result |-> err]])
    /\ pc' = "returned"

\* Faulty variant of LoopHead: range(max_iterations + 1).
LoopHead_extra(all, iters, idx) ==
    IF idx <= max_iterations
       /\ ~TargetReached(CountComponents(all), max_disconnected)
    THEN pc' = "calling" /\ result' = result
    ELSE Finish(all, iters, FALSE)

\* The top of `for i in range(max_iterations)` with idx iterations done:
\* the strategy runs on to its next client.extract call, or to its return
\* when range() is exhausted or the target is met
LoopHead(all, iters, idx) ==
    IF idx < max_iterations
       /\ ~TargetReached(CountComponents(all), max_disconnected)
    THEN pc' = "calling" /\ result' = result
    ELSE Finish(all, iters, FALSE)

\* The f-string of the ValueError: the requested name and the registered names
UnknownStrategyMessage(name) ==
    [text |-> "Unknown augmentation strategy", name |-> name,
     available |-> list_strategies]

\* Faulty variant of DispatchUnknown: an unknown name falls back to the
\* connectivity strategy.
DispatchUnknown_fallback ==
    /\ pc = "dispatch"
    /\ augmentation_strategy \notin STRATEGIES
    /\ all_triples' = triples
    /\ iterations_data' = << >>
    /\ error_occurred' = FALSE
    /\ i' = 0
    /\ appended' = << >>
    /\ LoopHead(triples, << >>, 0)
    /\ UNCHANGED <<libVars, domainVars, error_message, args, triples, error,
                   extraction_calls, augmentation_calls, last_call>>

\* Strategy dispatch: the name is not registered
DispatchUnknown ==
    /\ pc = "dispatch"
    /\ augmentation_strategy \notin STRATEGIES
    /\ error' = "ValueError"
    /\ error_message' = Some(UnknownStrategyMessage(augmentation_strategy))
    /\ pc' = "raised"
    /\ UNCHANGED <<libVars, domainVars, args, loopvars, triples, result, extraction_calls,
                   augmentation_calls, last_call>>

\* Strategy dispatch: connectivity_strategy is entered and runs to its first
\* provider call or to its return
DispatchStrategy ==
    /\ pc = "dispatch"
    /\ augmentation_strategy \in STRATEGIES
    /\ LoadAugmentationResources
    /\ all_triples' = triples
    /\ iterations_data' = << >>
    /\ error_occurred' = FALSE
    /\ i' = 0
    /\ appended' = << >>
    /\ LoopHead(triples, << >>, 0)
    /\ UNCHANGED <<libVars, error_message, args, triples, error, extraction_calls,
                   augmentation_calls, last_call>>

\* Faulty variant of FailedRecord: the iteration is numbered from 0, as i is.
FailedRecord_from_zero(idx) ==
    [iteration |-> idx, status |-> "failed", error |-> "ProviderError"]

\* The record of a failed iteration
FailedRecord(idx) ==
    [iteration |-> idx + 1, status |-> "failed", error |-> "ProviderError"]

\* extract_connected_graph, pre-phase otherwise: a load of extract_from_text
\* raises before the provider is called, and nothing handles it
PrePhaseResourceRaises ==
    /\ pc = "idle"
    /\ ~ExtractionLoad.ok
    /\ StoreExtractionLoad
    /\ \E initial \in {None} \cup {Some(l) : l \in InitialLists},
          maxd \in 0..MaxDisc, maxi \in 0..MaxIter, name \in StrategyNames :
        /\ ~InitialProvided(initial)
        /\ SetArgs(initial, maxd, maxi, name)
    /\ error' = ExtractionLoad.error
    /\ pc' = "raised"
    /\ UNCHANGED <<libVars, error_message, loopvars, triples, result,
                   extraction_calls, augmentation_calls, last_call>>

\* Faulty variant of DispatchResourceRaises: the loads are inside the try,
\* so the failure is recorded as a failed first iteration.
DispatchResourceRaises_absorbed ==
    /\ pc = "dispatch"
    /\ augmentation_strategy \in STRATEGIES
    /\ ~AugmentationLoad.ok
    /\ StoreAugmentationLoad
    /\ all_triples' = triples
    /\ iterations_data' = <<FailedRecord(0)>>
    /\ error_occurred' = TRUE
    /\ Finish(triples, iterations_data', TRUE)
    /\ UNCHANGED <<libVars, error_message, args, triples, i, appended, error,
                   extraction_calls, augmentation_calls, last_call>>

\* Strategy dispatch: connectivity_strategy is entered and a load raises,
\* ahead of the loop and outside its try
DispatchResourceRaises ==
    /\ pc = "dispatch"
    /\ augmentation_strategy \in STRATEGIES
    /\ ~AugmentationLoad.ok
    /\ StoreAugmentationLoad
    /\ error' = AugmentationLoad.error
    /\ pc' = "raised"
    /\ UNCHANGED <<libVars, error_message, args, loopvars, triples, result,
                   extraction_calls, augmentation_calls, last_call>>

\* Faulty variant of SuccessRecord: the count is taken before the
\* validation loop has filled new_triples.
SuccessRecord_early(idx, components, new_triples) ==
    [iteration |-> idx + 1, components_before |-> components,
     new_triples_count |-> 0, status |-> "success"]

\* The record of a successful iteration
SuccessRecord(idx, components, new_triples) ==
    [iteration |-> idx + 1, components_before |-> components,
     new_triples_count |-> Len(new_triples), status |-> "success"]

\* Faulty variant of ProviderReturns: the components are counted once, ahead
\* of the loop, and every record holds that count.
ProviderReturns_carried ==
    /\ pc = "calling"
    /\ LET components == CountComponents(triples)
       IN \E new_triples_raw \in Responses :
            LET new_triples == AugmentAll(new_triples_raw)
                all == Extend(all_triples, new_triples)
                iters == Append(iterations_data,
                                SuccessRecord(i, components, new_triples))
            IN /\ last_call' = Some(Returned(new_triples_raw))
               /\ all_triples' = all
               /\ appended' = Append(appended, new_triples)
               /\ iterations_data' = iters
               /\ LoopHead(all, iters, i + 1)
    /\ augmentation_calls' = augmentation_calls + 1
    /\ i' = i + 1
    /\ UNCHANGED <<libVars, domainVars, error_message, args, triples, error_occurred, error, extraction_calls>>

\* client.extract returns new_triples_raw to iteration i: the items are
\* validated and appended, the iteration is recorded, the loop goes on
ProviderReturns ==
    /\ pc = "calling"
    /\ LET components == CountComponents(all_triples)
       IN \E new_triples_raw \in Responses :
            LET new_triples == AugmentAll(new_triples_raw)
                all == Extend(all_triples, new_triples)
                iters == Append(iterations_data,
                                SuccessRecord(i, components, new_triples))
            IN /\ last_call' = Some(Returned(new_triples_raw))
               /\ all_triples' = all
               /\ appended' = Append(appended, new_triples)
               /\ iterations_data' = iters
               /\ LoopHead(all, iters, i + 1)
    /\ augmentation_calls' = augmentation_calls + 1
    /\ i' = i + 1
    /\ UNCHANGED <<libVars, domainVars, error_message, args, triples, error_occurred, error, extraction_calls>>

\* Faulty variant of ProviderRaises: the handler records the failure and the loop
\* goes on to the next iteration.
ProviderRaises_nobreak ==
    /\ pc = "calling"
    /\ last_call' = Some(Raised)
    /\ augmentation_calls' = augmentation_calls + 1
    /\ iterations_data' = Append(iterations_data, FailedRecord(i))
    /\ error_occurred' = TRUE
    /\ i' = i + 1
    /\ IF i + 1 < max_iterations
       THEN pc' = "calling" /\ result' = result
       ELSE Finish(all_triples, iterations_data', TRUE)
    /\ UNCHANGED <<libVars, domainVars, error_message, args, triples, all_triples, appended, error,
                   extraction_calls>>

\* client.extract raises in iteration i: the handler records the failure,
\* sets the flag and breaks
ProviderRaises ==
    /\ pc = "calling"
    /\ last_call' = Some(Raised)
    /\ augmentation_calls' = augmentation_calls + 1
    /\ iterations_data' = Append(iterations_data, FailedRecord(i))
    /\ error_occurred' = TRUE
    /\ Finish(all_triples, iterations_data', TRUE)
    /\ UNCHANGED <<libVars, domainVars, error_message, args, triples, all_triples, i, appended, error,
                   extraction_calls>>

Next ==
    \/ PrePhaseValidate
    \/ PrePhaseExtract
    \/ PrePhaseExtractRaises
    \/ DispatchUnknown
    \/ DispatchStrategy
    \/ ProviderReturns
    \/ ProviderRaises

Spec == Init /\ [][Next]_vars

TypeOK == pc \in {"idle", "dispatch", "calling", "returned", "raised"}

(***************************************************************************)
(* The Triple constructor on its own: one call of Triple with typed        *)
(* arguments, head, relation and tail any string of at most MaxStr         *)
(* characters, inference absent or a member of InferenceType.              *)
(***************************************************************************)
Chars == {"a", " ", "\n"}
Strings == SeqsUpTo(Chars, MaxStr)

TripleInputs ==
    [head : Strings, relation : Strings, tail : Strings]
        \cup [head : Strings, relation : Strings, tail : Strings,
              inference : InferenceType]
        \cup [head : Strings, relation : Strings, tail : Strings,
              inference : InferenceType, justification : {Some(<<"j">>)}]

InitTriple ==
    /\ InitEngine
    /\ IdleExtractor
    /\ IdleFormat
    /\ IdleGraph
    /\ IdleProvider
    /\ IdleJson
    /\ IdleClient
    /\ IdleDomain
    /\ IdleRegistry
    /\ IdleExtract
    /\ IdlePair
    /\ kw \in TripleInputs
    /\ built = None

\* Triple(**kw)
Construct ==
    /\ built = None
    /\ built' = Some(Triple(kw))
    /\ UNCHANGED <<kw, pairVars, othersTriple, engineVars>>

\* A constructed triple is dumped to the output shape and validated again,
\* by the constructor and by _normalize_triple
RoundTrip ==
    /\ built # None /\ built[1].ok
    /\ rebuilt = None
    /\ rebuilt' = Some([constructor |-> Triple(model_dump(built[1].val)),
                        normalized |-> _normalize_triple(model_dump(built[1].val))])
    /\ UNCHANGED <<kw, built, other_kw, equal, othersTriple, engineVars>>

NextTriple ==
    \/ Construct
    \/ RoundTrip

SpecTriple == InitTriple /\ [][NextTriple]_vars

(***************************************************************************)
(* Two Triple(...) calls and the comparison of what they built.            *)
(***************************************************************************)
PairInputs ==
    [head : {<<"a">>, <<"a", " ">>, <<"b">>}, relation : {<<"r">>},
     tail : {<<"a">>, <<"b">>}, inference : InferenceType,
     justification : {None, Some(<<"j">>), Some(<<"k">>)}]

InitCompare ==
    /\ InitEngine
    /\ IdleExtractor
    /\ IdleFormat
    /\ IdleGraph
    /\ IdleProvider
    /\ IdleJson
    /\ IdleClient
    /\ IdleDomain
    /\ IdleRegistry
    /\ IdleExtract
    /\ kw \in PairInputs
    /\ other_kw \in PairInputs
    /\ built = None
    /\ equal = None
    /\ rebuilt = None

\* Triple(**kw) == Triple(**other_kw)
Compare ==
    /\ equal = None
    /\ equal' = Some(Triple_eq(Triple(kw).val, Triple(other_kw).val))
    /\ UNCHANGED <<kw, built, other_kw, rebuilt, othersTriple, engineVars>>

NextCompare == Compare

SpecCompare == InitCompare /\ [][NextCompare]_vars

(***************************************************************************)
(* extract_from_text on its own: one call with any text and record_id,     *)
(* the provider returning any list of candidates, repeated ones included,  *)
(* or raising.                                                             *)
(***************************************************************************)
Texts == {<< >>, <<"t">>}
RecordIds == {None, Some(<< >>), Some(<<"r">>)}

\* Raw items a provider may return to extract_from_text: the candidates of
\* the engine and one whose inference is no member of InferenceType
ExtractCandidates ==
    Candidates \cup { [head |-> <<"A">>, relation |-> <<"r">>, tail |-> <<"B">>,
                       inference |-> "guess"] }

\* What client.extract may return to extract_from_text
RawResponses == SeqsUpTo(ExtractCandidates, MaxResp)

\* record = {"text": text}; record["id"] = record_id when record_id is truthy
PromptRecord(txt, rid) ==
    IF TruthyOpt(rid) THEN [text |-> txt, id |-> rid[1]] ELSE [text |-> txt]

InitExtract ==
    /\ InitEngine
    /\ IdleExtractor
    /\ IdleFormat
    /\ IdleGraph
    /\ IdleProvider
    /\ IdleJson
    /\ IdleClient
    /\ IdleDomain
    /\ IdleRegistry
    /\ IdleTriple
    /\ text \in Texts
    /\ record_id \in RecordIds
    /\ request = None

\* extract_from_text: the prompt is prepared, client.extract returns
\* raw_triples, each is normalized and the valid ones are returned
ExtractReturns ==
    /\ pc = "idle"
    /\ LoadExtractionResources
    /\ request' = Some(PromptRecord(text, record_id))
    /\ extraction_calls' = extraction_calls + 1
    /\ \E raw_triples \in RawResponses :
        /\ last_call' = Some(Returned(raw_triples))
        /\ triples' = extract_from_text(raw_triples)
    /\ result' = Some(triples')
    /\ pc' = "returned"
    /\ UNCHANGED <<othersExtract, text, record_id, args, loopvars, error,
                   error_message, augmentation_calls>>

\* extract_from_text: client.extract raises and nothing handles it
ExtractRaises ==
    /\ pc = "idle"
    /\ LoadExtractionResources
    /\ request' = Some(PromptRecord(text, record_id))
    /\ extraction_calls' = extraction_calls + 1
    /\ last_call' = Some(Raised)
    /\ error' = "ProviderError"
    /\ pc' = "raised"
    /\ UNCHANGED <<othersExtract, text, record_id, args, loopvars, triples,
                   result, error_message, augmentation_calls>>

NextExtract ==
    \/ ExtractReturns
    \/ ExtractRaises

SpecExtract == InitExtract /\ [][NextExtract]_vars

(***************************************************************************)
(* domains/registry.py: the registry of domain classes.  The dict is the   *)
(* sequence of its items in key order; register_log is the history of the  *)
(* registrations, which the registry itself does not keep.                 *)
(***************************************************************************)
DomainNames == {"legal", "default", "custom"}
DomainClasses == {"LegalDomain", "DefaultDomain", "CustomDomain"}
DomainKwargs == {<< >>} \cup [extraction_mode : {"open", "constrained"}]

\* list(d.keys())
DictKeys(d) == [k \in 1..Len(d) |-> d[k].name]

\* name in d
DictHas(d, name) == \E k \in 1..Len(d) : d[k].name = name

\* d[name]
DictGet(d, name) == d[CHOOSE k \in 1..Len(d) : d[k].name = name].cls

\* d[name] = cls: a present key keeps its place, a new key goes last
DictSet(d, name, cls) ==
    IF DictHas(d, name)
    THEN [k \in 1..Len(d) |->
            IF d[k].name = name THEN [name |-> name, cls |-> cls] ELSE d[k]]
    ELSE Append(d, [name |-> name, cls |-> cls])

\* domain_class(**kwargs): KnowledgeDomain.__init__ with a legal mode
Instantiate(domain_class, kwargs) ==
    [cls |-> domain_class,
     extraction_mode |-> Get(kwargs, "extraction_mode", "open")]

\* The f-string of get_domain's ValueError
UnknownDomainMessage(name) ==
    [text |-> "Unknown domain", name |-> name,
     available |-> DictKeys(_DOMAIN_REGISTRY)]

InitRegistry ==
    /\ InitEngine
    /\ IdleExtractor
    /\ IdleFormat
    /\ IdleGraph
    /\ IdleProvider
    /\ IdleJson
    /\ IdleClient
    /\ IdleDomain
    /\ IdleTriple
    /\ IdleExtract
    /\ IdleRegistry

\* Faulty variant of register_domain: a name already registered keeps its
\* class.
register_domain_setdefault(name, domain_class) ==
    /\ registrations < MaxReg
    /\ _DOMAIN_REGISTRY' =
         (IF DictHas(_DOMAIN_REGISTRY, name) THEN _DOMAIN_REGISTRY
          ELSE DictSet(_DOMAIN_REGISTRY, name, domain_class))
    /\ register_log' = Append(register_log, [name |-> name, cls |-> domain_class])
    /\ domain_call' = Some([op |-> "register_domain", name |-> name])
    /\ registrations' = registrations + 1
    /\ UNCHANGED <<othersRegistry, engineVars>>

\* register_domain(name, domain_class), also what @domain(name) does
register_domain(name, domain_class) ==
    /\ registrations < MaxReg
    /\ _DOMAIN_REGISTRY' = DictSet(_DOMAIN_REGISTRY, name, domain_class)
    /\ register_log' = Append(register_log, [name |-> name, cls |-> domain_class])
    /\ domain_call' = Some([op |-> "register_domain", name |-> name])
    /\ registrations' = registrations + 1
    /\ UNCHANGED <<othersRegistry, engineVars>>

\* get_domain(name, **kwargs)
get_domain(name, kwargs) ==
    /\ domain_call' =
         Some([op |-> "get_domain", name |-> name,
               outcome |->
                 IF ~DictHas(_DOMAIN_REGISTRY, name)
                 THEN [ok |-> FALSE, error |-> "ValueError",
                       message |-> UnknownDomainMessage(name)]
                 ELSE Returned(Instantiate(DictGet(_DOMAIN_REGISTRY, name),
                                           kwargs))])
    /\ UNCHANGED <<_DOMAIN_REGISTRY, register_log, registrations,
                   othersRegistry, engineVars>>

\* list_available_domains()
list_available_domains ==
    /\ domain_call' =
         Some([op |-> "list_available_domains",
               outcome |-> Returned(DictKeys(_DOMAIN_REGISTRY))])
    /\ UNCHANGED <<_DOMAIN_REGISTRY, register_log, registrations,
                   othersRegistry, engineVars>>

NextRegistry ==
    \/ \E name \in DomainNames, domain_class \in DomainClasses :
          register_domain(name, domain_class)
    \/ \E name \in DomainNames, kwargs \in DomainKwargs : get_domain(name, kwargs)
    \/ list_available_domains

SpecRegistry == InitRegistry /\ [][NextRegistry]_vars

(***************************************************************************)
(* One KnowledgeDomain object over any folder: its construction, then any  *)
(* calls of get_augmentation and any accesses to prompt and examples of    *)
(* its components.                                                         *)
(***************************************************************************)
InitDomain ==
    /\ InitEngine
    /\ IdleExtractor
    /\ IdleFormat
    /\ IdleGraph
    /\ IdleProvider
    /\ IdleJson
    /\ IdleClient
    /\ IdleTriple
    /\ IdleExtract
    /\ IdleRegistry
    /\ files \in FileStates
    /\ domain = None
    /\ domain_components = << >>
    /\ reads = [path \in Paths |-> 0]
    /\ aug_returned = [st \in AugStrategies |-> {}]
    /\ access = None
    /\ accesses = 0

\* KnowledgeDomain(...)
ConstructDomain ==
    /\ domain = None
    /\ domain' = Some(KnowledgeDomain_init.domain)
    /\ domain_components' = KnowledgeDomain_init.components
    /\ access' = Some([op |-> "__init__"])
    /\ UNCHANGED <<files, reads, aug_returned, accesses, othersDomain,
                   engineVars>>

\* component.prompt, for the component object id
AccessPrompt(id) ==
    /\ domain # None
    /\ accesses < MaxAccess
    /\ LET eff == prompt(domain_components[id], files)
       IN /\ domain_components' = [domain_components EXCEPT ![id] = eff.comp]
          /\ reads' = CountReads(reads, eff.read)
          /\ access' = Some([op |-> "prompt", component |-> id,
                             outcome |-> eff.outcome])
    /\ accesses' = accesses + 1
    /\ UNCHANGED <<files, domain, aug_returned, othersDomain, engineVars>>

\* component.examples, for the component object id
AccessExamples(id) ==
    /\ domain # None
    /\ accesses < MaxAccess
    /\ LET eff == examples(domain_components[id], files)
       IN /\ domain_components' = [domain_components EXCEPT ![id] = eff.comp]
          /\ reads' = CountReads(reads, eff.read)
          /\ access' = Some([op |-> "examples", component |-> id,
                             outcome |-> eff.outcome])
    /\ accesses' = accesses + 1
    /\ UNCHANGED <<files, domain, aug_returned, othersDomain, engineVars>>

\* domain.get_augmentation(strategy)
CallGetAugmentation(strategy) ==
    /\ domain # None
    /\ accesses < MaxAccess
    /\ LET eff == get_augmentation(domain[1], domain_components, files, strategy)
       IN /\ domain' = Some(eff.domain)
          /\ domain_components' = eff.components
          /\ aug_returned' =
               (IF eff.outcome.ok
                THEN [aug_returned EXCEPT ![strategy] = @ \cup {eff.outcome.val}]
                ELSE aug_returned)
          /\ access' = Some([op |-> "get_augmentation", strategy |-> strategy,
                             outcome |-> eff.outcome])
    /\ accesses' = accesses + 1
    /\ UNCHANGED <<files, reads, othersDomain, engineVars>>

NextDomain ==
    \/ ConstructDomain
    \/ \E id \in 1..Len(domain_components) : AccessPrompt(id)
    \/ \E id \in 1..Len(domain_components) : AccessExamples(id)
    \/ \E strategy \in AugStrategies : CallGetAugmentation(strategy)

SpecDomain == InitDomain /\ [][NextDomain]_vars

(***************************************************************************)
(* extract_connected_graph over a domain folder in which one thing may be  *)
(* wrong: a file missing, malformed or holding null, or the strategy       *)
(* folder missing.  The calls are those that allow at most MaxIterRes      *)
(* iterations and pass at most MaxInitRes initial triples.                 *)
(***************************************************************************)
\* The folders that differ from a well-formed one in at most one place
OneFaultFolders ==
    {f \in FileStates :
        \/ f.aug_dir /\ Cardinality({path \in Paths : f[path] # GoodFiles[path]}) <= 1
        \/ ~f.aug_dir /\ f.ext_prompt = GoodFiles.ext_prompt
                      /\ f.ext_examples = GoodFiles.ext_examples}

InitResources ==
    /\ InitEngine
    /\ IdleExtractor
    /\ IdleFormat
    /\ IdleGraph
    /\ IdleProvider
    /\ IdleJson
    /\ IdleClient
    /\ IdleTriple
    /\ IdleExtract
    /\ IdleRegistry
    /\ files \in OneFaultFolders
    /\ domain = Some(KnowledgeDomain_init.domain)
    /\ domain_components = KnowledgeDomain_init.components
    /\ reads = [path \in Paths |-> 0]
    /\ aug_returned = [st \in AugStrategies |-> {}]
    /\ access = None
    /\ accesses = 0

\* The arguments of the calls considered
SmallCall ==
    /\ max_iterations <= MaxIterRes
    /\ initial_triples # None => Len(initial_triples[1]) <= MaxInitRes

NextResources ==
    \/ PrePhaseValidate /\ SmallCall'
    \/ PrePhaseExtract /\ SmallCall'
    \/ PrePhaseExtractRaises /\ SmallCall'
    \/ PrePhaseResourceRaises /\ SmallCall'
    \/ DispatchUnknown
    \/ DispatchStrategy
    \/ DispatchResourceRaises
    \/ ProviderReturns
    \/ ProviderRaises

SpecResources == InitResources /\ [][NextResources]_vars

(***************************************************************************)
(* clients: ClientConfig and the creation of a client from it.  There are  *)
(* two ClientConfig classes: the data container of clients/config.py,      *)
(* which the providers' from_config reads, and the one of                  *)
(* clients/factory.py, with __post_init__, which create_client reads.      *)
(* A field the user did not set is None in client_kwargs.                  *)
(***************************************************************************)
HostedMaxWorkers == 10
LocalMaxWorkers == 5
LocalBatchLength == 5
LegacyMaxWorkers == 10
LegacyBatchLength == 10

ClientTypes == {"gemini", "ollama", "lmstudio"}
LocalTypes == {"ollama", "lmstudio"}

\* An Optional over the values of S
OptionalOf(S) == {None} \cup {Some(v) : v \in S}

\* What a user may set
ClientKwargs ==
    [client_type : OptionalOf(ClientTypes),
     model_id : OptionalOf({"mistral", "gemini-2.0-flash-exp"}),
     base_url : OptionalOf({"http://host:1"}),
     max_workers : OptionalOf({3, 5, 10}),
     batch_length : OptionalOf({3, 5, 10})]

\* The argument when given, else the parameter's default
OrDefault(arg, default) == IF arg = None THEN default ELSE arg[1]

\* clients/config.py ClientConfig(**kwargs): a data container, None for
\* what is unset
ClientConfig(kwargs) ==
    [module |-> "config",
     client_type |-> OrDefault(kwargs.client_type, "gemini"),
     model_id |-> kwargs.model_id,
     base_url |-> kwargs.base_url,
     max_workers |-> kwargs.max_workers,
     batch_length |-> kwargs.batch_length]

\* clients/factory.py ClientConfig.__post_init__
__post_init__(self) ==
    IF self.client_type \in LocalTypes
    THEN [self EXCEPT
            !.base_url = IF self.base_url = None
                         THEN Some(IF self.client_type = "ollama"
                                   THEN "http://localhost:11434"
                                   ELSE "http://localhost:1234/v1")
                         ELSE @,
            !.model_id = IF @ = "gemini-2.0-flash-exp"
                         THEN (IF self.client_type = "ollama" THEN "llama3.1"
                               ELSE "local-model")
                         ELSE @,
            !.max_workers = IF @ = LegacyMaxWorkers THEN LocalMaxWorkers ELSE @,
            !.batch_length = IF @ = LegacyBatchLength THEN LocalBatchLength ELSE @]
    ELSE self

\* clients/factory.py ClientConfig(**kwargs): the dataclass defaults, then
\* __post_init__
LegacyClientConfig(kwargs) ==
    __post_init__([module |-> "factory",
                   client_type |-> OrDefault(kwargs.client_type, "gemini"),
                   model_id |-> OrDefault(kwargs.model_id, "gemini-2.0-flash"),
                   base_url |-> kwargs.base_url,
                   max_workers |-> OrDefault(kwargs.max_workers, LegacyMaxWorkers),
                   batch_length |-> OrDefault(kwargs.batch_length,
                                              LegacyBatchLength)])

\* `config.model_id or default`: None and the empty string give the default
OrElse(opt, default) == IF opt = None \/ opt[1] = "" THEN default ELSE opt[1]

\* GeminiClient.from_config
GeminiClient_from_config(config) ==
    Returned([cls |-> "GeminiClient",
              model_id |-> OrElse(config.model_id, "gemini-2.0-flash"),
              max_workers |-> OrDefault(config.max_workers, HostedMaxWorkers)])

\* OllamaClient.from_config
OllamaClient_from_config(config) ==
    Returned([cls |-> "OllamaClient",
              model_id |-> OrElse(config.model_id, "llama3.1"),
              base_url |-> OrElse(config.base_url, "http://localhost:11434"),
              max_workers |-> OrDefault(config.max_workers, LocalMaxWorkers),
              batch_length |-> OrDefault(config.batch_length, LocalBatchLength)])

\* clients/factory.py create_client(config)
create_client(config) ==
    IF config.client_type = "gemini"
    THEN Returned([cls |-> "GeminiClient", model_id |-> config.model_id,
                   max_workers |-> config.max_workers])
    ELSE IF config.base_url = None \/ config.base_url[1] = ""
    THEN [ok |-> FALSE, error |-> "LLMClientError"]
    ELSE Returned([cls |-> IF config.client_type = "ollama" THEN "OllamaClient"
                           ELSE "LMStudioClient",
                   model_id |-> config.model_id,
                   base_url |-> config.base_url[1],
                   max_workers |-> config.max_workers,
                   batch_length |-> config.batch_length])

InitClient ==
    /\ InitEngine
    /\ IdleExtractor
    /\ IdleFormat
    /\ IdleGraph
    /\ IdleProvider
    /\ IdleJson
    /\ IdleTriple
    /\ IdleExtract
    /\ IdleRegistry
    /\ IdleDomain
    /\ client_kwargs \in ClientKwargs
    /\ client_config = None
    /\ client = None

\* ClientConfig(**client_kwargs) of clients/config.py
NewConfig ==
    /\ client_config = None
    /\ client_config' = Some(ClientConfig(client_kwargs))
    /\ UNCHANGED <<client_kwargs, client, othersClient, engineVars>>

\* ClientConfig(**client_kwargs) of clients/factory.py
NewLegacyConfig ==
    /\ client_config = None
    /\ client_config' = Some(LegacyClientConfig(client_kwargs))
    /\ UNCHANGED <<client_kwargs, client, othersClient, engineVars>>

\* The provider class of a config.py ClientConfig makes the client
CreateFromConfig ==
    /\ client_config # None /\ client = None
    /\ client_config[1].module = "config"
    /\ client_config[1].client_type \in {"gemini", "ollama"}
    /\ client' = Some(IF client_config[1].client_type = "gemini"
                      THEN GeminiClient_from_config(client_config[1])
                      ELSE OllamaClient_from_config(client_config[1]))
    /\ UNCHANGED <<client_kwargs, client_config, othersClient, engineVars>>

\* create_client on a factory.py ClientConfig
CreateClient ==
    /\ client_config # None /\ client = None
    /\ client_config[1].module = "factory"
    /\ client' = Some(create_client(client_config[1]))
    /\ UNCHANGED <<client_kwargs, client_config, othersClient, engineVars>>

NextClient ==
    \/ NewConfig
    \/ NewLegacyConfig
    \/ CreateFromConfig
    \/ CreateClient

SpecClient == InitClient /\ [][NextClient]_vars

(***************************************************************************)
(* generate_json: from the parsed response (the value of json.loads) to    *)
(* the list of raw items.  A JSON value is a list (a sequence of values),  *)
(* a dict (its key/value pairs in the order of the document, which is the  *)
(* order of data.values()) or a string.                                    *)
(***************************************************************************)
JList(l) == [type |-> "list", val |-> l]
JDict(pairs) == [type |-> "dict", pairs |-> pairs]
JStr(v) == [type |-> "str", str |-> v]

\* The keys generate_json looks under, in the order of its loop
WrapperKeys == <<"items", "triples", "data", "results", "extractions">>

\* Raw items a model answers with
JsonItems ==
    {JDict(<<[key |-> "head", value |-> JStr("A")]>>),
     JDict(<<[key |-> "head", value |-> JStr("B")],
             [key |-> "inference", value |-> JStr("explicit")]>>)}

JsonLists == SeqsUpTo(JsonItems, MaxJson)

\* Keys and values of a dict answer
PayloadKeys == {"items", "extractions", "notes"}
PayloadValues == {JList(l) : l \in JsonLists} \cup {JStr("s")}

PayloadDicts ==
    {JDict(pairs) : pairs \in
        {[n \in DOMAIN ks |-> [key |-> ks[n], value |-> vs[n]]] :
            <<ks, vs>> \in
                {kv \in DistinctSeqsUpTo(PayloadKeys, MaxKeys)
                        \X SeqsUpTo(PayloadValues, MaxKeys) :
                    Len(kv[1]) = Len(kv[2])}}}

\* What json.loads can give
Payloads == {JList(l) : l \in JsonLists} \cup PayloadDicts \cup {JStr("s")}

\* key in data
json_in(key, data) == \E n \in DOMAIN data.pairs : data.pairs[n].key = key

\* data[key]
json_get(data, key) ==
    data.pairs[CHOOSE n \in DOMAIN data.pairs : data.pairs[n].key = key].value

\* data[key] = value: the key keeps its place, a new key goes last
json_set(data, key, value) ==
    IF json_in(key, data)
    THEN JDict([n \in DOMAIN data.pairs |->
                    IF data.pairs[n].key = key
                    THEN [key |-> key, value |-> value] ELSE data.pairs[n]])
    ELSE JDict(Append(data.pairs, [key |-> key, value |-> value]))

\* for key in [...]: if key in data and isinstance(data[key], list): the
\* first such key from position k on, 0 when there is none
RECURSIVE FirstWrapperKey(_, _)
FirstWrapperKey(data, k) ==
    IF k > Len(WrapperKeys) THEN 0
    ELSE IF json_in(WrapperKeys[k], data)
            /\ json_get(data, WrapperKeys[k]).type = "list"
    THEN k
    ELSE FirstWrapperKey(data, k + 1)

\* kg_constructor/clients: OllamaClient.generate_json and
\* LMStudioClient.generate_json, from json.loads on
legacy_generate_json(data) ==
    IF data.type = "list" THEN data.val
    ELSE IF data.type = "dict"
    THEN LET k == FirstWrapperKey(data, 1) IN
         IF k # 0 THEN json_get(data, WrapperKeys[k]).val ELSE <<data>>
    ELSE << >>

\* for item in items: if isinstance(item, dict): item['inference'] =
\* 'contextual'
ForceInference(items) ==
    [n \in DOMAIN items |->
        IF items[n].type = "dict"
        THEN json_set(items[n], "inference", JStr("contextual"))
        ELSE items[n]]

\* items = []; for key ...: items = data[key]; break; if not items:
\* items = [data].  The key under which items was found, 0 when items is
\* [data]
ollama_items_key(data) ==
    LET k == FirstWrapperKey(data, 1) IN
    IF k # 0 /\ json_get(data, WrapperKeys[k]).val # << >> THEN k ELSE 0

\* clients/providers/ollama.py OllamaClient.generate_json, from json.loads
\* on: the list returned, and data as the loop over items leaves it (the
\* items are the objects data holds, changed in place)
ollama_generate_json(data) ==
    IF data.type = "list"
    THEN LET items == ForceInference(data.val)
         IN [items |-> items, data |-> JList(items)]
    ELSE IF data.type = "dict"
    THEN LET k == ollama_items_key(data) IN
         IF k # 0
         THEN LET items == ForceInference(json_get(data, WrapperKeys[k]).val)
              IN [items |-> items,
                  data |-> json_set(data, WrapperKeys[k], JList(items))]
         ELSE LET item == json_set(data, "inference", JStr("contextual"))
              IN [items |-> <<item>>, data |-> item]
    ELSE [items |-> << >>, data |-> data]

\* for val in data.values(): if isinstance(val, list): return val
RECURSIVE FirstListValue(_, _)
FirstListValue(data, n) ==
    IF n > Len(data.pairs) THEN None
    ELSE IF data.pairs[n].value.type = "list" THEN Some(data.pairs[n].value.val)
    ELSE FirstListValue(data, n + 1)

\* clients/providers/gemini.py GeminiClient.generate_json, from json.loads
\* on
gemini_generate_json(data) ==
    IF data.type = "list" THEN data.val
    ELSE IF data.type = "dict"
    THEN LET l == FirstListValue(data, 1) IN
         IF l # None THEN l[1] ELSE <<data>>
    ELSE << >>

InitJson ==
    /\ InitEngine
    /\ IdleExtractor
    /\ IdleFormat
    /\ IdleGraph
    /\ IdleProvider
    /\ IdleClient
    /\ IdleTriple
    /\ IdleExtract
    /\ IdleRegistry
    /\ IdleDomain
    /\ response_data \in {Some(d) : d \in Payloads}
    /\ json_provider = None
    /\ json_items = None

OllamaGenerateJson ==
    /\ json_items = None
    /\ json_provider' = Some("providers.ollama")
    /\ json_items' = Some(ollama_generate_json(response_data[1]).items)
    /\ response_data' = Some(ollama_generate_json(response_data[1]).data)
    /\ UNCHANGED <<othersJson, engineVars>>

GeminiGenerateJson ==
    /\ json_items = None
    /\ json_provider' = Some("providers.gemini")
    /\ json_items' = Some(gemini_generate_json(response_data[1]))
    /\ UNCHANGED <<response_data, othersJson, engineVars>>

LegacyOllamaGenerateJson ==
    /\ json_items = None
    /\ json_provider' = Some("kg_constructor.ollama_client")
    /\ json_items' = Some(legacy_generate_json(response_data[1]))
    /\ UNCHANGED <<response_data, othersJson, engineVars>>

LMStudioGenerateJson ==
    /\ json_items = None
    /\ json_provider' = Some("kg_constructor.lmstudio_client")
    /\ json_items' = Some(legacy_generate_json(response_data[1]))
    /\ UNCHANGED <<response_data, othersJson, engineVars>>

NextJson ==
    \/ OllamaGenerateJson
    \/ GeminiGenerateJson
    \/ LegacyOllamaGenerateJson
    \/ LMStudioGenerateJson

SpecJson == InitJson /\ [][NextJson]_vars

(***************************************************************************)
(* The providers' extract and generate_json as calls that end: what the    *)
(* model server, the SDK or langextract does is an input; the try body     *)
(* turns it into a return value or an exception, and the except clauses    *)
(* decide what leaves the method.                                          *)
(***************************************************************************)
\* An exception of the named class leaves
Raises(name) == [ok |-> FALSE, error |-> name]

\* The subclasses of requests.RequestException that requests.post and
\* raise_for_status raise
RequestExceptions == {"ConnectionError", "Timeout", "HTTPError"}

\* What the Ollama server does with the one POST to /api/generate: the
\* connection fails, the timeout passes, a status outside 2xx, a body that
\* is no JSON, a JSON body that is a list, an object with no "response",
\* with an empty one, with one that is no string, with text that is no
\* JSON, with text that parses to data
OllamaWireKinds ==
    {"ConnectionError", "Timeout", "HTTP500", "NotJson", "JsonList",
     "NoResponseKey", "EmptyResponse", "NonStrResponse", "Unparseable"}

OllamaWire ==
    {[kind |-> k, data |-> JStr("s")] : k \in OllamaWireKinds}
        \cup {[kind |-> "Parsed", data |-> d] : d \in Payloads}

\* The try body of OllamaClient.generate_json
ollama_generate_json_try(wire) ==
    CASE wire.kind \in {"ConnectionError", "Timeout"} -> Raises(wire.kind)
      [] wire.kind = "HTTP500" -> Raises("HTTPError")
      [] wire.kind = "NotJson" -> Raises("JSONDecodeError")
      [] wire.kind \in {"JsonList", "NonStrResponse"} -> Raises("AttributeError")
      [] wire.kind \in {"NoResponseKey", "EmptyResponse"} -> Returned(JList(<< >>))
      [] wire.kind = "Unparseable" -> Raises("LLMClientError")
      [] OTHER -> Returned(JList(ollama_generate_json(wire.data).items))

\* Faulty variant of ollama_generate_json_except: only the
\* RequestException clause
ollama_generate_json_except_requests(out) ==
    IF out.ok THEN out
    ELSE IF out.error \in RequestExceptions THEN Raises("LLMClientError")
    ELSE out

\* except requests.RequestException ... except Exception: both raise
\* LLMClientError
ollama_generate_json_except(out) ==
    IF out.ok THEN out
    ELSE IF out.error \in RequestExceptions THEN Raises("LLMClientError")
    ELSE Raises("LLMClientError")

\* What model.generate_content does: the SDK raises, the text is empty,
\* reading the text raises, the text is no JSON, the text parses to data
GeminiWireKinds == {"GoogleAPIError", "EmptyText", "ValueError", "Unparseable"}

GeminiWire ==
    {[kind |-> k, data |-> JStr("s")] : k \in GeminiWireKinds}
        \cup {[kind |-> "Parsed", data |-> d] : d \in Payloads}

\* The try body of GeminiClient.generate_json
gemini_generate_json_try(wire) ==
    CASE wire.kind \in {"GoogleAPIError", "ValueError"} -> Raises(wire.kind)
      [] wire.kind = "EmptyText" -> Returned(JList(<< >>))
      [] wire.kind = "Unparseable" -> Raises("LLMClientError")
      [] OTHER -> Returned(JList(gemini_generate_json(wire.data)))

\* except Exception as e: raise LLMClientError(...) from e
except_Exception(out) == IF out.ok THEN out ELSE Raises("LLMClientError")

\* An extraction of langextract: its attributes as a dict
LxExtractions ==
    JsonItems \cup
    {JDict(<<[key |-> "head", value |-> JStr("A")],
             [key |-> "relation", value |-> JStr("r")],
             [key |-> "tail", value |-> JStr("B")]>>)}

\* What lx.extract does: it raises, it returns an object with no
\* extractions attribute, or one with extractions.  A list as data is the
\* extractions in order.
LxResults ==
    {[kind |-> k, data |-> JStr("s")] :
        k \in {"InferenceRuntimeError", "NoExtractions"}}
        \cup {[kind |-> "Extractions", data |-> JList(l)] :
                l \in SeqsUpTo(LxExtractions, MaxJson)}

\* The try body of GeminiClient.extract: one dict per extraction
gemini_extract_try(lx) ==
    CASE lx.kind = "InferenceRuntimeError" -> Raises(lx.kind)
      [] lx.kind = "NoExtractions" -> Returned(JList(<< >>))
      [] OTHER -> Returned(JList(lx.data.val))

\* all(k in triple for k in ('head', 'relation', 'tail'))
HasTripleKeys(item) ==
    \A k \in {"head", "relation", "tail"} : json_in(k, item)

\* The extractions that have the three keys, in order
RECURSIVE KeepTriples(_)
KeepTriples(l) ==
    IF l = << >> THEN << >>
    ELSE IF HasTripleKeys(Head(l)) THEN <<Head(l)>> \o KeepTriples(Tail(l))
    ELSE KeepTriples(Tail(l))

\* The try body of OllamaClient.extract
ollama_extract_try(lx) ==
    CASE lx.kind = "InferenceRuntimeError" -> Raises(lx.kind)
      [] lx.kind = "NoExtractions" -> Returned(JList(<< >>))
      [] OTHER -> Returned(JList(KeepTriples(lx.data.val)))

InitProvider ==
    /\ InitEngine
    /\ IdleExtractor
    /\ IdleFormat
    /\ IdleGraph
    /\ IdleJson
    /\ IdleClient
    /\ IdleTriple
    /\ IdleExtract
    /\ IdleRegistry
    /\ IdleDomain
    /\ provider_call = None
    /\ http_requests = 0
    /\ call_outcome = None

\* OllamaClient.generate_json: one requests.post, then the outcome
CallOllamaGenerateJson ==
    /\ provider_call = None
    /\ \E wire \in OllamaWire :
        /\ provider_call' = Some([provider |-> "ollama",
                                  method |-> "generate_json", input |-> wire])
        /\ http_requests' = http_requests + 1
        /\ call_outcome' =
               Some(ollama_generate_json_except(ollama_generate_json_try(wire)))
    /\ UNCHANGED <<othersProvider, engineVars>>

\* GeminiClient.generate_json: one model.generate_content, then the outcome
CallGeminiGenerateJson ==
    /\ provider_call = None
    /\ \E wire \in GeminiWire :
        /\ provider_call' = Some([provider |-> "gemini",
                                  method |-> "generate_json", input |-> wire])
        /\ http_requests' = http_requests + 1
        /\ call_outcome' = Some(except_Exception(gemini_generate_json_try(wire)))
    /\ UNCHANGED <<othersProvider, engineVars>>

\* GeminiClient.extract: lx.extract, then the outcome
CallGeminiExtract ==
    /\ provider_call = None
    /\ \E lx \in LxResults :
        /\ provider_call' = Some([provider |-> "gemini", method |-> "extract",
                                  input |-> lx])
        /\ call_outcome' = Some(except_Exception(gemini_extract_try(lx)))
    /\ UNCHANGED <<http_requests, othersProvider, engineVars>>

\* OllamaClient.extract: lx.extract, then the outcome
CallOllamaExtract ==
    /\ provider_call = None
    /\ \E lx \in LxResults :
        /\ provider_call' = Some([provider |-> "ollama", method |-> "extract",
                                  input |-> lx])
        /\ call_outcome' = Some(except_Exception(ollama_extract_try(lx)))
    /\ UNCHANGED <<http_requests, othersProvider, engineVars>>

NextProvider ==
    \/ CallOllamaGenerateJson
    \/ CallGeminiGenerateJson
    \/ CallGeminiExtract
    \/ CallOllamaExtract

SpecProvider == InitProvider /\ [][NextProvider]_vars

(***************************************************************************)
(* The graph analysis of the engine on its own: a list of Triple objects,  *)
(* the graph built from it and its weakly connected components.            *)
(***************************************************************************)
GraphNodes == {<<"A">>, <<"B">>, <<"C">>}
GraphRelations == {<<"r">>, <<"s">>}

\* The Triple objects over the nodes, self-loops included
GraphTriples ==
    {[head |-> h, relation |-> r, tail |-> t, inference |-> EXPLICIT,
      justification |-> None] :
        h \in GraphNodes, r \in GraphRelations, t \in GraphNodes}

InitGraph ==
    /\ InitEngine
    /\ IdleExtractor
    /\ IdleFormat
    /\ IdleProvider
    /\ IdleJson
    /\ IdleClient
    /\ IdleTriple
    /\ IdleExtract
    /\ IdleRegistry
    /\ IdleDomain
    /\ graph_triples \in SeqsUpTo(GraphTriples, MaxGraph)
    /\ component_count = None

\* G = _build_graph_from_triples(all_triples);
\* components = list(nx.weakly_connected_components(G))
CountGraph ==
    /\ component_count = None
    /\ component_count' =
           Some([nodes |-> _build_graph_from_triples(graph_triples).nodes,
                 components |-> CountComponents(graph_triples)])
    /\ UNCHANGED <<graph_triples, othersGraph, engineVars>>

NextGraph == CountGraph

SpecGraph == InitGraph /\ [][NextGraph]_vars

(***************************************************************************)
(* _format_components: the listing of the components in the augmentation   *)
(* prompt, as its lines.  There are two: the function of                   *)
(* builder/augmentation.py (the functional engine) and the method of       *)
(* extractor.py (the class-based engine).  A component is given as         *)
(* list(nodes), a line as the component's number, the nodes shown, whether *)
(* an ellipsis follows and the total shown after it, if any.               *)
(***************************************************************************)
ShownComponents == 30
ShownNodes == 10

Min(a, b) == IF a <= b THEN a ELSE b

\* list(nodes)[:10]
FirstNodes(nodes) == SubSeq(nodes, 1, Min(ShownNodes, Len(nodes)))

\* builder/augmentation.py _format_components
_format_components(components) ==
    [n \in DOMAIN components |->
        [index |-> n,
         nodes |-> FirstNodes(components[n]),
         ellipsis |-> Len(components[n]) > ShownNodes,
         total |-> None]]

\* extractor.py KnowledgeGraphExtractor._format_components
KnowledgeGraphExtractor_format_components(components) ==
    [n \in 1..Min(ShownComponents, Len(components)) |->
        [index |-> n,
         nodes |-> FirstNodes(components[n]),
         ellipsis |-> Len(components[n]) > ShownNodes,
         total |-> IF Len(components[n]) > ShownNodes
                   THEN Some(Len(components[n])) ELSE None]]

\* count components of one node each, but the one at position big, which
\* has size nodes; a node is named by its component and its place in it
ComponentList(count, big, size) ==
    [n \in 1..count |-> [j \in 1..(IF n = big THEN size ELSE 1) |-> <<n, j>>]]

\* The component lists of graphs of at most MaxComponents components
ComponentLists ==
    {ComponentList(count, big, size) :
        count \in 0..MaxComponents, big \in 1..MaxComponents,
        size \in 1..MaxNodes}

InitFormat ==
    /\ InitEngine
    /\ IdleExtractor
    /\ IdleGraph
    /\ IdleProvider
    /\ IdleJson
    /\ IdleClient
    /\ IdleTriple
    /\ IdleExtract
    /\ IdleRegistry
    /\ IdleDomain
    /\ prompt_components \in ComponentLists
    /\ listing = None

\* comp_text = _format_components(components, G) in connectivity_strategy
FormatInStrategy ==
    /\ listing = None
    /\ listing' = Some([by |-> "builder.augmentation",
                        lines |-> _format_components(prompt_components)])
    /\ UNCHANGED <<prompt_components, othersFormat, engineVars>>

\* component_info = self._format_components(components, G) in
\* KnowledgeGraphExtractor.extract_connected_graph
FormatInExtractor ==
    /\ listing = None
    /\ listing' = Some([by |-> "extractor",
                        lines |-> KnowledgeGraphExtractor_format_components(
                                      prompt_components)])
    /\ UNCHANGED <<prompt_components, othersFormat, engineVars>>

NextFormat ==
    \/ FormatInStrategy
    \/ FormatInExtractor

SpecFormat == InitFormat /\ [][NextFormat]_vars

(***************************************************************************)
(* extractor.py: KnowledgeGraphExtractor.extract_connected_graph, the      *)
(* class-based engine.  Its triples are dicts; the call is observed where  *)
(* it waits for the client, as the functional engine is.                   *)
(***************************************************************************)
\* raw_triple.get(key, default)
DictGetOr(d, key, default) == IF key \in DOMAIN d THEN d[key] ELSE default

\* KnowledgeGraphExtractor._normalize_triple
KnowledgeGraphExtractor_normalize_triple(raw_triple) ==
    [head |-> DictGetOr(raw_triple, "head", << >>),
     relation |-> DictGetOr(raw_triple, "relation", << >>),
     tail |-> DictGetOr(raw_triple, "tail", << >>),
     inference |-> DictGetOr(raw_triple, "inference", "explicit"),
     justification |-> DictGetOr(raw_triple, "justification", None),
     char_start |-> DictGetOr(raw_triple, "char_start", None),
     char_end |-> DictGetOr(raw_triple, "char_end", None),
     extraction_text |-> DictGetOr(raw_triple, "extraction_text", None)]

\* triple["iteration_source"] = source
MarkSource(t, source) ==
    [k \in DOMAIN t \cup {"iteration_source"} |->
        IF k = "iteration_source" THEN source ELSE t[k]]

\* if "iteration_source" not in triple: triple["iteration_source"] = 0
MarkInitial(t) == IF "iteration_source" \in DOMAIN t THEN t ELSE MarkSource(t, 0)

\* (t['head'], t['relation'], t['tail'])
TripleKey(t) == <<t.head, t.relation, t.tail>>

\* [t for t in augmentation_triples if key(t) not in existing_triples_set]
RECURSIVE NotExisting(_, _)
NotExisting(augmentation_triples, existing) ==
    IF augmentation_triples = << >> THEN << >>
    ELSE (IF TripleKey(Head(augmentation_triples)) \in existing THEN << >>
          ELSE <<Head(augmentation_triples)>>)
         \o NotExisting(Tail(augmentation_triples), existing)

\* The number of edges of the DiGraph
NumberOfEdges(ts) == Cardinality(_build_graph_from_triples(ts).edges)
NumberOfNodes(ts) == Cardinality(_build_graph_from_triples(ts).nodes)

\* Dicts a caller passes as initial_triples, or the client extracts: three
\* pairs of nodes apart from each other
KgeTriples ==
    {KnowledgeGraphExtractor_normalize_triple(
         [head |-> h, relation |-> <<"r">>, tail |-> t]) :
        <<h, t>> \in {<<<<"A">>, <<"B">>>>, <<<<"C">>, <<"D">>>>,
                      <<<<"E">>, <<"F">>>>}}

KgeStartLists == DistinctSeqsUpTo(KgeTriples, MaxKge)

\* Items client.generate_json may return: two bridges, the first starting
\* triple again, a pair of new nodes, an item with no head
KgeRaw ==
    {[head |-> <<"B">>, relation |-> <<"r">>, tail |-> <<"C">>],
     [head |-> <<"D">>, relation |-> <<"r">>, tail |-> <<"E">>,
      inference |-> "contextual"],
     [head |-> <<"A">>, relation |-> <<"r">>, tail |-> <<"B">>],
     [head |-> <<"X">>, relation |-> <<"r">>, tail |-> <<"Y">>],
     [relation |-> <<"r">>, tail |-> <<"C">>]}

KgeResponses == DistinctSeqsUpTo(KgeRaw, MaxResp)

\* metadata["refinement_iterations"][-1]["early_stop_reason"] =
\* "no_connectivity_improvement"
MarkStop(rec) ==
    [k \in DOMAIN rec \cup {"early_stop_reason"} |->
        IF k = "early_stop_reason" THEN "no_connectivity_improvement" ELSE rec[k]]

\* The statements after the while loop: stop_reason and final_state
KgeFinish(ts, n, iter, meta, all_augmentation) ==
    LET refinement == meta.refinement_iterations
        stop_reason ==
            IF n <= kge_args.max_disconnected
            THEN Some("connectivity_goal_achieved")
            ELSE IF iter >= kge_args.max_iterations
            THEN Some("max_iterations_reached")
            ELSE IF refinement # << >>
                    /\ "early_stop_reason" \in DOMAIN refinement[Len(refinement)]
            THEN Some(refinement[Len(refinement)].early_stop_reason)
            ELSE None
    IN /\ kge_metadata' =
            [initial_extraction |-> meta.initial_extraction,
             refinement_iterations |-> refinement,
             augmentation_triples |-> all_augmentation,
             final_state |->
                 [total_triples |-> Len(ts),
                  initial_triples |-> meta.initial_extraction.triples,
                  augmentation_triples |-> Len(all_augmentation),
                  nodes |-> NumberOfNodes(ts),
                  edges |-> NumberOfEdges(ts),
                  disconnected_components |-> n,
                  is_connected |-> (n = 1),
                  iterations_used |-> iter,
                  stop_reason |-> stop_reason,
                  connectivity_improvement |->
                      meta.initial_extraction.disconnected_components - n]]
       /\ kge_pc' = "returned"

\* while num_components > max_disconnected and iteration < max_iterations:
\* on to the next client.generate_json call, or to the return
KgeLoopTest(ts, n, iter, meta, all_augmentation, maxd, maxi) ==
    IF n > maxd /\ iter < maxi
    THEN kge_pc' = "calling" /\ kge_metadata' = meta
    ELSE KgeFinish(ts, n, iter, meta, all_augmentation)

\* The call up to the loop, the triples being ts
KgeEnter(ts, maxd, maxi) ==
    /\ kge_args' = [max_disconnected |-> maxd, max_iterations |-> maxi]
    /\ kge_triples' = ts
    /\ num_components' = CountComponents(ts)
    /\ iteration' = 0
    /\ KgeLoopTest(ts, CountComponents(ts), 0,
                   [initial_extraction |->
                        [triples |-> Len(ts),
                         nodes |-> NumberOfNodes(ts),
                         edges |-> NumberOfEdges(ts),
                         disconnected_components |-> CountComponents(ts)],
                    refinement_iterations |-> << >>,
                    augmentation_triples |-> << >>],
                   << >>, maxd, maxi)

InitExtractor ==
    /\ InitEngine
    /\ IdleFormat
    /\ IdleGraph
    /\ IdleProvider
    /\ IdleJson
    /\ IdleClient
    /\ IdleTriple
    /\ IdleExtract
    /\ IdleRegistry
    /\ IdleDomain
    /\ kge_pc = "idle"
    /\ kge_args = [max_disconnected |-> 0, max_iterations |-> 0]
    /\ kge_triples = << >>
    /\ num_components = 0
    /\ iteration = 0
    /\ kge_metadata = << >>
    /\ generate_json_calls = 0

\* extract_connected_graph(initial_triples=...) with a list: the dicts are
\* copied and marked
KgeStartGiven ==
    /\ kge_pc = "idle"
    /\ \E initial_triples_ \in KgeStartLists,
          maxd \in 0..MaxDisc, maxi \in 0..MaxIter :
        KgeEnter([n \in DOMAIN initial_triples_ |->
                      MarkInitial(initial_triples_[n])], maxd, maxi)
    /\ UNCHANGED <<generate_json_calls, othersExtractor, engineVars>>

\* extract_connected_graph with initial_triples None: extract_from_text,
\* whose client.extract returns, normalizes and the triples are marked
KgeStartExtracted ==
    /\ kge_pc = "idle"
    /\ \E raw_triples \in KgeResponses,
          maxd \in 0..MaxDisc, maxi \in 0..MaxIter :
        KgeEnter([n \in DOMAIN raw_triples |->
                      MarkSource(KnowledgeGraphExtractor_normalize_triple(
                                     raw_triples[n]), 0)], maxd, maxi)
    /\ UNCHANGED <<generate_json_calls, othersExtractor, engineVars>>

\* client.generate_json returns: the body of the while loop from there, and
\* on to the next call or to the return
KgeGenerateReturns ==
    /\ kge_pc = "calling"
    /\ generate_json_calls' = generate_json_calls + 1
    /\ UNCHANGED <<kge_args, othersExtractor, engineVars>>
    /\ \E raw \in KgeResponses :
        LET augmentation_triples ==
                [n \in DOMAIN raw |->
                    KnowledgeGraphExtractor_normalize_triple(raw[n])]
            existing_triples_set ==
                {TripleKey(kge_triples[n]) : n \in DOMAIN kge_triples}
            current_iteration == iteration + 1
            unmarked == NotExisting(augmentation_triples, existing_triples_set)
            new_triples == [n \in DOMAIN unmarked |->
                                MarkSource(unmarked[n], current_iteration)]
            all_augmentation == kge_metadata.augmentation_triples
        IN IF Len(new_triples) = 0
           THEN /\ UNCHANGED <<kge_triples, num_components, iteration>>
                /\ KgeFinish(kge_triples, num_components, iteration,
                       [kge_metadata EXCEPT !.refinement_iterations =
                           Append(@, [iteration |-> current_iteration,
                                      new_triples |-> 0,
                                      total_triples |-> Len(kge_triples),
                                      disconnected_components |-> num_components,
                                      early_stop_reason |-> "no_new_triples_found"])],
                       all_augmentation)
           ELSE LET ts == kge_triples \o new_triples
                    prev_num_components == num_components
                    n == CountComponents(ts)
                    rec == [iteration |-> current_iteration,
                            new_triples |-> Len(new_triples),
                            total_triples |-> Len(ts),
                            disconnected_components |-> n]
                IN /\ kge_triples' = ts
                   /\ num_components' = n
                   /\ IF n >= prev_num_components
                      THEN /\ iteration' = iteration
                           /\ KgeFinish(ts, n, iteration,
                                  [kge_metadata EXCEPT !.refinement_iterations =
                                      Append(@, MarkStop(rec))],
                                  all_augmentation \o new_triples)
                      ELSE /\ iteration' = iteration + 1
                           /\ KgeLoopTest(ts, n, iteration + 1,
                                  [kge_metadata EXCEPT
                                      !.refinement_iterations = Append(@, rec),
                                      !.augmentation_triples = @ \o new_triples],
                                  all_augmentation \o new_triples,
                                  kge_args.max_disconnected,
                                  kge_args.max_iterations)

\* client.generate_json raises: nothing in extract_connected_graph catches
KgeGenerateRaises ==
    /\ kge_pc = "calling"
    /\ generate_json_calls' = generate_json_calls + 1
    /\ kge_pc' = "raised"
    /\ UNCHANGED <<kge_args, kge_triples, num_components, iteration,
                   kge_metadata, othersExtractor, engineVars>>

NextExtractor ==
    \/ KgeStartGiven
    \/ KgeStartExtracted
    \/ KgeGenerateReturns
    \/ KgeGenerateRaises

SpecExtractor == InitExtractor /\ [][NextExtractor]_vars

(***************************************************************************)
(* Helpers of the properties.                                              *)
(***************************************************************************)
\* The concatenation of a list of lists
RECURSIVE Flatten(_)
Flatten(ls) == IF ls = << >> THEN << >> ELSE Head(ls) \o Flatten(Tail(ls))

\* connectivity_strategy has been entered
InStrategy == pc \in {"calling", "returned"}

\* The returned pair, when the call has returned
ReturnedTriples == result[1].triples
ReturnedMetadata == result[1].metadata

\* client.extract raised inside the augmentation loop
AugmentationRaised == augmentation_calls > 0 /\ last_call = Some(Raised)

\* s is non-empty and neither starts nor ends with whitespace
Trimmed(s) == s # << >> /\ s[1] \notin Whitespace /\ s[Len(s)] \notin Whitespace

\* Every character of s is whitespace (the empty string included)
Blank(s) == \A k \in 1..Len(s) : s[k] \in Whitespace

\* v is s without its leading and trailing whitespace
IsStripOf(v, s) ==
    /\ v = << >> \/ Trimmed(v)
    /\ \E a, b \in 0..Len(s) :
        /\ a + Len(v) + b = Len(s)
        /\ Blank(SubSeq(s, 1, a))
        /\ SubSeq(s, a + 1, a + Len(v)) = v
        /\ Blank(SubSeq(s, a + Len(v) + 1, Len(s)))

(***************************************************************************)
(* C1. When client.extract raises in iteration k of connectivity_strategy, *)
(* the strategy makes no further provider call and returns: the list is    *)
(* the starting triples followed by what iterations 1..k-1 appended,       *)
(* partial_result is true and the last iteration record is the k-th, with  *)
(* status failed.                                                          *)
(***************************************************************************)
C1_FailureReturnsPartial ==
    AugmentationRaised =>
        /\ pc = "returned"
        /\ Len(appended) = augmentation_calls - 1
        /\ ReturnedTriples = triples \o Flatten(appended)
        /\ ReturnedMetadata.partial_result = TRUE
        /\ Len(ReturnedMetadata.iterations) = augmentation_calls
        /\ ReturnedMetadata.iterations[augmentation_calls].status = "failed"
        /\ ReturnedMetadata.iterations[augmentation_calls].iteration
               = augmentation_calls

\* The provider raises in the second iteration, after a first one that
\* appended something
C1_Witness ==
    /\ AugmentationRaised
    /\ augmentation_calls = 2
    /\ appended[1] # << >>
    /\ triples # << >>

(***************************************************************************)
(* C2. Whatever the provider does, connectivity_strategy makes at most     *)
(* max_iterations client.extract calls, and none when max_iterations = 0:  *)
(* it is suspended at a call only when fewer than max_iterations calls     *)
(* have been made, so every run of it ends.                                *)
(***************************************************************************)
C2_BoundedCalls ==
    /\ augmentation_calls <= max_iterations
    /\ pc = "calling" => augmentation_calls < max_iterations
    /\ InStrategy => Len(iterations_data) = augmentation_calls

\* The loop ran out of iterations with the target still unmet, the provider
\* having raised the component count on the way
C2_Witness ==
    /\ pc = "returned"
    /\ max_iterations = MaxIter
    /\ augmentation_calls = max_iterations
    /\ ~AugmentationRaised
    /\ CountComponents(all_triples) > CountComponents(triples)
    /\ CountComponents(all_triples) > max_disconnected

(***************************************************************************)
(* C3. connectivity_strategy calls the provider only in an iteration whose *)
(* freshly computed component count exceeds max_disconnected; when the     *)
(* starting triples already meet the target it returns them with no        *)
(* iteration record and partial_result false.                              *)
(***************************************************************************)
C3_NoCallWhenTargetMet ==
    /\ pc = "calling" => CountComponents(all_triples) > max_disconnected
    /\ \A k \in 1..Len(iterations_data) :
           iterations_data[k].status = "success"
               => iterations_data[k].components_before > max_disconnected
    /\ (InStrategy /\ CountComponents(triples) <= max_disconnected) =>
           /\ pc = "returned"
           /\ augmentation_calls = 0
           /\ ReturnedTriples = triples
           /\ ReturnedMetadata.iterations = << >>
           /\ ReturnedMetadata.partial_result = FALSE

\* A non-empty starting set with exactly max_disconnected components, and
\* iterations allowed
C3_Witness ==
    /\ pc = "returned"
    /\ max_iterations > 0
    /\ triples # << >>
    /\ CountComponents(triples) = max_disconnected

(***************************************************************************)
(* C4. Every triple of the accumulated and of the returned list beyond the *)
(* starting triples has inference = contextual, whatever inference the     *)
(* provider gave it.                                                       *)
(***************************************************************************)
C4_AddedAreContextual ==
    /\ \A k \in (Len(triples) + 1)..Len(all_triples) :
           all_triples[k].inference = CONTEXTUAL
    /\ pc = "returned" =>
           \A k \in (Len(triples) + 1)..Len(ReturnedTriples) :
               ReturnedTriples[k].inference = CONTEXTUAL

\* The provider returned an item tagged explicit and an item with no
\* inference, and both were appended
C4_Witness ==
    /\ pc = "returned"
    /\ augmentation_calls > 0
    /\ last_call # None /\ last_call[1].ok
    /\ LET raw == last_call[1].val
       IN /\ \E k \in 1..Len(raw) :
                "inference" \in DOMAIN raw[k] /\ raw[k].inference = EXPLICIT
          /\ \E k \in 1..Len(raw) : "inference" \notin DOMAIN raw[k]
          /\ Len(appended[Len(appended)]) = 2

(***************************************************************************)
(* C5. From dispatch on, the caller's initial_triples and the starting     *)
(* list stay as they are; the accumulated list keeps the starting triples  *)
(* as its prefix and only grows at its end; what an iteration adds is the  *)
(* valid items of the provider's response, in the provider's order; the    *)
(* list is the starting triples followed by the additions of iterations    *)
(* 1, 2, ... in that order, and it is the list returned.                   *)
(***************************************************************************)
\* A raw item that passes validation once its inference is forced
RawValid(d) ==
    /\ {"head", "relation", "tail"} \subseteq DOMAIN d
    /\ ~Blank(d.head) /\ ~Blank(d.relation) /\ ~Blank(d.tail)

\* The j-th smallest element of a set of numbers
Nth(idx, j) == CHOOSE k \in idx : Cardinality({m \in idx : m <= k}) = j

\* new holds one triple for each valid item of raw, in the order of raw
InProviderOrder(new, raw) ==
    LET idx == {k \in 1..Len(raw) : RawValid(raw[k])}
    IN /\ Len(new) = Cardinality(idx)
       /\ \A j \in 1..Len(new) :
            /\ IsStripOf(new[j].head, raw[Nth(idx, j)].head)
            /\ IsStripOf(new[j].relation, raw[Nth(idx, j)].relation)
            /\ IsStripOf(new[j].tail, raw[Nth(idx, j)].tail)

C5_Accumulated ==
    InStrategy =>
        /\ all_triples = triples \o Flatten(appended)
        /\ pc = "returned" => ReturnedTriples = all_triples

C5_Step ==
    pc \in {"dispatch", "calling"} =>
        /\ initial_triples' = initial_triples
        /\ triples' = triples
        /\ pc = "calling" =>
            /\ Len(all_triples') >= Len(all_triples)
            /\ SubSeq(all_triples', 1, Len(all_triples)) = all_triples
            /\ IF last_call'[1].ok
               THEN InProviderOrder(
                        SubSeq(all_triples', Len(all_triples) + 1,
                               Len(all_triples')),
                        last_call'[1].val)
               ELSE all_triples' = all_triples

C5_PrefixAndOrder == [](C5_Accumulated) /\ [][C5_Step]_vars

\* Two iterations after a non-empty start, the first adding two triples
C5_Witness ==
    /\ pc = "returned"
    /\ triples # << >>
    /\ Len(appended) = 2
    /\ Len(appended[1]) = 2
    /\ appended[2] # << >>

(***************************************************************************)
(* C6. No augmentation triple of the returned list has the (head,          *)
(* relation, tail) of an earlier triple of that list.                      *)
(***************************************************************************)
Key(t) == <<t.head, t.relation, t.tail>>

C6_FirstOccurrenceOnly ==
    pc = "returned" =>
        \A k \in (Len(triples) + 1)..Len(ReturnedTriples) :
            \A j \in 1..(k - 1) : Key(ReturnedTriples[j]) # Key(ReturnedTriples[k])

(***************************************************************************)
(* C7. Every triple extract_from_text returns, every triple the strategy   *)
(* accumulates and every triple extract_connected_graph returns has a      *)
(* head, a relation and a tail that are non-empty and neither start nor    *)
(* end with whitespace.                                                    *)
(***************************************************************************)
AllTrimmed(ts) ==
    \A k \in 1..Len(ts) :
        Trimmed(ts[k].head) /\ Trimmed(ts[k].relation) /\ Trimmed(ts[k].tail)

C7_FieldsTrimmed ==
    /\ AllTrimmed(triples)
    /\ AllTrimmed(all_triples)
    /\ pc = "returned" => AllTrimmed(ReturnedTriples)

\* A Triple object and a padded dict were supplied, the provider returned a
\* padded item, and all three are in the returned list
C7_Witness ==
    /\ pc = "returned"
    /\ initial_triples # None
    /\ \E k \in 1..Len(initial_triples[1]) : initial_triples[1][k].cls = "Triple"
    /\ \E k \in 1..Len(initial_triples[1]) :
          /\ initial_triples[1][k].cls = "dict"
          /\ RawValid(initial_triples[1][k].fields)
          /\ ~Trimmed(initial_triples[1][k].fields.head)
    /\ last_call # None /\ last_call[1].ok
    /\ \E k \in 1..Len(last_call[1].val) :
          /\ RawValid(last_call[1].val[k])
          /\ ~Trimmed(last_call[1].val[k].tail)
    /\ Len(ReturnedTriples) >= 3

(***************************************************************************)
(* C8. Triple(...) fails exactly when head, relation or tail is empty or   *)
(* all whitespace; when it succeeds each of the three stored fields is the *)
(* argument without its leading and trailing whitespace.                   *)
(***************************************************************************)
C8_ConstructionValidates ==
    built # None =>
        /\ built[1].ok <=>
               ~(Blank(kw.head) \/ Blank(kw.relation) \/ Blank(kw.tail))
        /\ built[1].ok =>
               /\ IsStripOf(built[1].val.head, kw.head)
               /\ IsStripOf(built[1].val.relation, kw.relation)
               /\ IsStripOf(built[1].val.tail, kw.tail)

\* A construction that succeeded on a head with leading and a tail with
\* trailing whitespace
C8_Witness ==
    /\ built # None
    /\ built[1].ok
    /\ kw.head[1] \in Whitespace
    /\ kw.tail[Len(kw.tail)] \in Whitespace
    /\ built[1].val.head # kw.head

(***************************************************************************)
(* C9. Given an initial_triples list, extract_connected_graph makes no     *)
(* initial-extraction call and hands the strategy exactly the elements     *)
(* that validate, in input order.                                          *)
(***************************************************************************)
C9_NoExtractionWhenGiven ==
    (pc # "idle" /\ initial_triples # None) =>
        /\ extraction_calls = 0
        /\ triples = ValidateInitial(initial_triples[1])

(***************************************************************************)
(* C10. When the initial extraction call raises, the error reaches the     *)
(* caller: nothing is returned, no partial result is reported and the      *)
(* strategy is not entered.                                                *)
(***************************************************************************)
ExtractionRaised ==
    extraction_calls > 0 /\ augmentation_calls = 0 /\ last_call = Some(Raised)

C10_ExtractionErrorPropagates ==
    /\ ExtractionRaised =>
        /\ pc = "raised"
        /\ error = "ProviderError"
    /\ (pc = "raised" /\ error = "ProviderError") =>
        /\ result = None
        /\ augmentation_calls = 0
        /\ all_triples = << >>
        /\ iterations_data = << >>
        /\ error_occurred = FALSE

\* The extraction of a call that allowed iterations raised
C10_Witness ==
    /\ pc = "raised"
    /\ ExtractionRaised
    /\ initial_triples = None
    /\ max_iterations > 0
    /\ augmentation_strategy \in STRATEGIES

C12_EmptyTextNoCall ==
    (pc # "idle" /\ text = << >>) =>
        /\ pc = "returned"
        /\ result = Some(<< >>)
        /\ extraction_calls = 0
        /\ request = None

(***************************************************************************)
(* C13. extract_from_text makes exactly one client.extract call; what it   *)
(* returns is one triple for each candidate that validates, in provider    *)
(* order: a candidate with an empty, blank or missing head, relation or    *)
(* tail (or an illegal inference) is dropped and the others stay, a        *)
(* missing inference becomes explicit, and candidates with the same        *)
(* (head, relation, tail) are all kept.                                    *)
(***************************************************************************)
\* A raw item that validates as a Triple
RawValidates(d) ==
    RawValid(d) /\ ("inference" \in DOMAIN d => d.inference \in InferenceType)

C13_ExactlyValidInOrder ==
    /\ pc # "idle" => extraction_calls = 1
    /\ pc = "returned" =>
        LET raw == last_call[1].val
            out == result[1]
            idx == {k \in 1..Len(raw) : RawValidates(raw[k])}
        IN /\ Len(out) = Cardinality(idx)
           /\ \A j \in 1..Len(out) :
                LET d == raw[Nth(idx, j)]
                IN /\ IsStripOf(out[j].head, d.head)
                   /\ IsStripOf(out[j].relation, d.relation)
                   /\ IsStripOf(out[j].tail, d.tail)
                   /\ out[j].inference =
                        (IF "inference" \in DOMAIN d THEN d.inference
                         ELSE EXPLICIT)

\* The provider returned an invalid candidate followed by a valid one with
\* no inference
C13_Witness ==
    /\ pc = "returned"
    /\ Len(last_call[1].val) = 2
    /\ ~RawValidates(last_call[1].val[1])
    /\ RawValidates(last_call[1].val[2])
    /\ "inference" \notin DOMAIN last_call[1].val[2]
    /\ Len(result[1]) = 1

(***************************************************************************)
(* C14. Two Triples compare equal if and only if their head, relation,     *)
(* tail and inference are equal; the justification takes no part.          *)
(***************************************************************************)
SameSemanticFields(a, b) ==
    /\ a.head = b.head
    /\ a.relation = b.relation
    /\ a.tail = b.tail
    /\ a.inference = b.inference

C14_EqualityIgnoresJustification ==
    equal # None =>
        (equal[1] <=> SameSemanticFields(Triple(kw).val, Triple(other_kw).val))

(***************************************************************************)
(* C15. A constructed Triple, dumped with model_dump and passed back       *)
(* through the Triple constructor or through _normalize_triple, validates  *)
(* and gives a triple equal to the original in every field, also when the *)
(* original arguments carried surrounding whitespace.                      *)
(***************************************************************************)
C15_RoundTrip ==
    rebuilt # None =>
        /\ rebuilt[1].constructor.ok
        /\ Triple_eq(rebuilt[1].constructor.val, built[1].val)
        /\ rebuilt[1].normalized # None
        /\ Triple_eq(rebuilt[1].normalized[1], built[1].val)

\* The round trip of a triple built from a padded head, with a contextual
\* inference and a justification
C15_Witness ==
    /\ rebuilt # None
    /\ kw.head[1] \in Whitespace
    /\ kw.tail[Len(kw.tail)] \in Whitespace
    /\ built[1].val.inference = CONTEXTUAL
    /\ built[1].val.justification # None

(***************************************************************************)
(* C16. After any sequence of register_domain, get_domain and              *)
(* list_available_domains calls: get_domain(name) succeeds exactly when    *)
(* some registration named name, and then instantiates the class of the    *)
(* latest such registration; on an unregistered name it fails with an      *)
(* error that carries the name and each registered name once; and a        *)
(* get_domain or list_available_domains call, failed or not, leaves the    *)
(* registry as it was.                                                     *)
(***************************************************************************)
\* The names registered so far, by the history
LoggedNames == {register_log[k].name : k \in 1..Len(register_log)}

\* The class of the latest registration of name, by the history
LatestClass(name) ==
    LET ks == {k \in 1..Len(register_log) : register_log[k].name = name}
    IN register_log[CHOOSE k \in ks : \A m \in ks : m <= k].cls

\* seq lists every element of S exactly once
ListsOnce(seq, S) ==
    /\ {seq[k] : k \in 1..Len(seq)} = S
    /\ Len(seq) = Cardinality(S)

C16_LookupState ==
    /\ (domain_call # None /\ domain_call[1].op = "get_domain") =>
        LET name == domain_call[1].name
            out == domain_call[1].outcome
        IN /\ out.ok <=> name \in LoggedNames
           /\ out.ok => out.val.cls = LatestClass(name)
           /\ ~out.ok =>
                /\ out.error = "ValueError"
                /\ out.message.name = name
                /\ ListsOnce(out.message.available, LoggedNames)
    /\ (domain_call # None /\ domain_call[1].op = "list_available_domains") =>
        ListsOnce(domain_call[1].outcome.val, LoggedNames)

C16_LookupStep ==
    (domain_call' # None /\ domain_call'[1].op # "register_domain") =>
        /\ _DOMAIN_REGISTRY' = _DOMAIN_REGISTRY
        /\ register_log' = register_log

C16_RegistryLookup == [](C16_LookupState) /\ [][C16_LookupStep]_vars

\* A lookup of a name registered twice after import, with two classes, the
\* second time over the class the import gave it
C16_Witness ==
    /\ domain_call # None
    /\ domain_call[1].op = "get_domain"
    /\ domain_call[1].name = "legal"
    /\ registrations = 2
    /\ register_log[3].name = "legal" /\ register_log[3].cls = "CustomDomain"
    /\ register_log[4].name = "legal" /\ register_log[4].cls = "DefaultDomain"
    /\ domain_call[1].outcome.val.cls = "DefaultDomain"

(***************************************************************************)
(* C17. Constructing a domain reads no resource file; of each              *)
(* DomainComponent the prompt file and the examples file are each read at  *)
(* most once, whatever accesses are made, and an access after the first    *)
(* reads nothing; get_augmentation(name) returns the same component object *)
(* on every call for the same name.                                        *)
(***************************************************************************)
C17_ReadOnceState ==
    /\ accesses = 0 => \A path \in Paths : reads[path] = 0
    /\ \A path \in Paths : reads[path] <= 1
    /\ \A st \in AugStrategies : Cardinality(aug_returned[st]) <= 1

C17_ReadOnceStep ==
    \A id \in 1..Len(domain_components) :
        /\ (access # None /\ access[1].op = "prompt" /\ access[1].component = id
              /\ access'[1].op = "prompt" /\ access'[1].component = id
              /\ accesses' > accesses) =>
            /\ reads' = reads
            /\ access'[1].outcome = access[1].outcome
        /\ (access # None /\ access[1].op = "examples" /\ access[1].component = id
              /\ access'[1].op = "examples" /\ access'[1].component = id
              /\ accesses' > accesses) =>
            /\ reads' = reads
            /\ access'[1].outcome = access[1].outcome

C17_ReadOnce == [](C17_ReadOnceState) /\ [][C17_ReadOnceStep]_vars

(***************************************************************************)
(* C18. A missing prompt file or a malformed examples.json reaches the     *)
(* caller of extract_connected_graph as a DomainResourceError: when        *)
(* extract_from_text or the strategy is entered over such a file the call  *)
(* raises, with nothing returned, no provider call of that phase, no       *)
(* iteration record and no partial result; and no call returns over such   *)
(* a file.  An absent examples.json gives the empty list and no error.     *)
(***************************************************************************)
Malformed(file) == file.exists /\ ~file.parsed.ok
HoldsNull(file) == file.exists /\ file.parsed.ok /\ file.parsed.val = None

ExtFault == ~files.ext_prompt.exists \/ Malformed(files.ext_examples)
AugFault == ~files.aug_prompt.exists \/ Malformed(files.aug_examples)

\* extract_from_text has been entered
ExtEntered == pc # "idle" /\ ~InitialProvided(initial_triples)

\* connectivity_strategy has been entered: the pre-phase ended well and the
\* name is registered
StrategyEntered ==
    /\ pc \notin {"idle", "dispatch"}
    /\ augmentation_strategy \in STRATEGIES
    /\ ExtEntered =>
         ~ExtFault /\ ~HoldsNull(files.ext_examples) /\ ~ExtractionRaised

NothingAbsorbed ==
    /\ pc = "raised"
    /\ error = "DomainResourceError"
    /\ result = None
    /\ iterations_data = << >>
    /\ ~error_occurred

C18_ResourceErrorsSurface ==
    /\ (ExtEntered /\ ExtFault) => (NothingAbsorbed /\ extraction_calls = 0)
    /\ (StrategyEntered /\ AugFault) => (NothingAbsorbed /\ augmentation_calls = 0)
    /\ result # None => (~AugFault /\ (ExtEntered => ~ExtFault))
    /\ (ExtEntered /\ ~ExtFault /\ ~files.ext_examples.exists) =>
         /\ domain_components[domain[1].extraction]._examples = Some(<< >>)
         /\ error # "DomainResourceError" \/ AugFault
    /\ (StrategyEntered /\ ~AugFault /\ ~files.aug_examples.exists) =>
         /\ pc # "raised"
         /\ domain_components[domain[1]._augmentation_cache["connectivity"]]
               ._examples = Some(<< >>)

\* The strategy was entered over a malformed augmentation examples.json,
\* with an iteration allowed and the target unmet
C18_Witness ==
    /\ StrategyEntered
    /\ Malformed(files.aug_examples)
    /\ files.aug_prompt.exists
    /\ pc = "raised"
    /\ max_iterations > 0
    /\ CountComponents(triples) > max_disconnected

(***************************************************************************)
(* C19. Constructing a ClientConfig and creating a client from it alter no *)
(* value the user set: model_id, base_url, max_workers and batch_length    *)
(* reach the provider as given, for every client type; max_workers and     *)
(* batch_length left unset become the provider's default, 5 and 5 for the  *)
(* local providers and max_workers 10 for the hosted one.                  *)
(***************************************************************************)
ProviderFields == {"model_id", "base_url", "max_workers", "batch_length"}

\* The value of a field of the ClientConfig object, None when it is unset
ConfigField(config, f) ==
    IF config.module = "config" \/ f = "base_url" THEN config[f]
    ELSE Some(config[f])

ProviderDefault(cls, f) ==
    IF cls = "GeminiClient" THEN HostedMaxWorkers
    ELSE IF f = "max_workers" THEN LocalMaxWorkers ELSE LocalBatchLength

C19_UserValuesKept ==
    /\ client_config # None =>
        \A f \in ProviderFields :
            client_kwargs[f] # None =>
                ConfigField(client_config[1], f) = client_kwargs[f]
    /\ (client # None /\ client[1].ok) =>
        \A f \in ProviderFields \cap DOMAIN client[1].val :
            /\ client_kwargs[f] # None => client[1].val[f] = client_kwargs[f][1]
            /\ (client_kwargs[f] = None /\ f \in {"max_workers", "batch_length"}) =>
                   client[1].val[f] = ProviderDefault(client[1].val.cls, f)

(***************************************************************************)
(* C20. generate_json, given a response that parses to a dict holding a    *)
(* list under one of the keys items, triples, data, results, extractions,  *)
(* returns exactly that list, also when it is empty; a dict holding no     *)
(* such list comes back as a one-element list containing the dict; a       *)
(* top-level list comes back as it is.                                     *)
(***************************************************************************)
\* The lists the dict holds under the wrapper keys
WrappedLists(data) ==
    {json_get(data, WrapperKeys[k]).val :
        k \in {j \in DOMAIN WrapperKeys :
                 /\ json_in(WrapperKeys[j], data)
                 /\ json_get(data, WrapperKeys[j]).type = "list"}}

C20_Unwrapped(data, items) ==
    /\ data.type = "list" => items = data.val
    /\ (data.type = "dict" /\ WrappedLists(data) # {}) =>
           items \in WrappedLists(data)
    /\ (data.type = "dict" /\ WrappedLists(data) = {}) => items = <<data>>

C20_GenerateJsonUnwraps ==
    json_items # None => C20_Unwrapped(response_data[1], json_items[1])

(***************************************************************************)
(* C21. A call to a provider's extract or generate_json ends in a returned *)
(* list or in LLMClientError raised, whatever the transport did (failure,  *)
(* status outside 2xx, timeout, unparseable body): no other exception      *)
(* leaves, nothing but a list is returned, and generate_json sends at most *)
(* one request.                                                            *)
(***************************************************************************)
C21_ListOrClientError ==
    call_outcome # None =>
        /\ \/ call_outcome[1].ok /\ call_outcome[1].val.type = "list"
           \/ ~call_outcome[1].ok /\ call_outcome[1].error = "LLMClientError"
        /\ provider_call[1].method = "generate_json" => http_requests <= 1

\* A generate_json call whose response body was a JSON list, not an object,
\* has ended
C21_Witness ==
    /\ call_outcome # None
    /\ provider_call[1].method = "generate_json"
    /\ provider_call[1].input.kind = "JsonList"
    /\ ~call_outcome[1].ok

(***************************************************************************)
(* The partition of the nodes of a triple list, stated without a search.   *)
(***************************************************************************)
\* Every string occurring as a head or a tail
NodeSet(ts) ==
    {ts[k].head : k \in DOMAIN ts} \cup {ts[k].tail : k \in DOMAIN ts}

\* S holds, with an end of a triple, the other end too
LinkClosed(ts, S) == \A k \in DOMAIN ts : ts[k].head \in S <=> ts[k].tail \in S

\* The class of a node: the nodes every link-closed set holding it holds
ClassOf(ts, a) ==
    {b \in NodeSet(ts) :
        \A S \in SUBSET NodeSet(ts) : (a \in S /\ LinkClosed(ts, S)) => b \in S}

\* The classes of the reflexive-symmetric-transitive closure of head-tail
Classes(ts) == {ClassOf(ts, a) : a \in NodeSet(ts)}

(***************************************************************************)
(* C22. In every iteration record with status success, components_before   *)
(* is the number of weakly connected components of the starting triples    *)
(* plus everything appended in the earlier iterations: the count is taken  *)
(* anew in each iteration, never carried over.                             *)
(***************************************************************************)
AccumulatedBefore(k) == triples \o Flatten(SubSeq(appended, 1, k - 1))

C22_CountTakenAnew ==
    InStrategy =>
        \A k \in DOMAIN iterations_data :
            iterations_data[k].status = "success" =>
                iterations_data[k].components_before
                    = Cardinality(Classes(AccumulatedBefore(k)))

\* Two successful iterations, the second starting from fewer components
\* than the first
C22_Witness ==
    /\ pc = "returned"
    /\ Len(iterations_data) = 2
    /\ iterations_data[2].status = "success"
    /\ iterations_data[2].components_before
           < iterations_data[1].components_before

(***************************************************************************)
(* C23. After the triples of a successful iteration are appended, the      *)
(* weakly-connected-component count of the accumulated triples is never    *)
(* greater than that iteration's components_before, whatever the provider  *)
(* returned.                                                               *)
(***************************************************************************)
\* The component count once iteration k has appended its triples
ComponentsAfter(k) == Cardinality(Classes(AccumulatedBefore(k + 1)))

C23_NeverMoreComponents ==
    InStrategy =>
        \A k \in DOMAIN iterations_data :
            iterations_data[k].status = "success" =>
                ComponentsAfter(k) <= iterations_data[k].components_before

\* C23 as amended: the count after the append is never greater than
\* components_before plus the number of triples the iteration appended
C23_AtMostOnePerTriple ==
    InStrategy =>
        \A k \in DOMAIN iterations_data :
            iterations_data[k].status = "success" =>
                ComponentsAfter(k) <= iterations_data[k].components_before
                                          + iterations_data[k].new_triples_count

\* A successful iteration has left more components than it started from
C23_Witness ==
    /\ pc = "returned"
    /\ \E k \in DOMAIN iterations_data :
        /\ iterations_data[k].status = "success"
        /\ ComponentsAfter(k) = iterations_data[k].components_before
                                    + iterations_data[k].new_triples_count
        /\ iterations_data[k].new_triples_count > 0

(***************************************************************************)
(* C24. The component count the engine uses for a triple list is the       *)
(* number of classes of its node set (the strings occurring as a head or a *)
(* tail) under the reflexive-symmetric-transitive closure of head-tail:    *)
(* direction, relation labels and repetitions do not count, a triple whose *)
(* head is its tail gives a singleton unless linked otherwise, and the     *)
(* empty list gives no node and no component.                              *)
(***************************************************************************)
C24_CountIsClassCount ==
    component_count # None =>
        /\ component_count[1].nodes = NodeSet(graph_triples)
        /\ component_count[1].components = Cardinality(Classes(graph_triples))
        /\ graph_triples = << >> =>
               component_count[1] = [nodes |-> {}, components |-> 0]

\* Counted: a triple from a node to itself next to a triple into a node from
\* another one, two components
C24_Witness ==
    /\ component_count # None
    /\ Len(graph_triples) = 2
    /\ graph_triples[1].head = graph_triples[1].tail
    /\ graph_triples[2].head # graph_triples[2].tail
    /\ component_count[1].components = 2

(***************************************************************************)
(* C25. The component listing of the augmentation prompt names at most 30  *)
(* components and at most 10 nodes of each, however many there are; a      *)
(* component of more than 10 nodes is shown cut, with an ellipsis and its  *)
(* total number of nodes.                                                  *)
(***************************************************************************)
C25_ListingIsCapped ==
    listing # None =>
        LET lines == listing[1].lines IN
        /\ Len(lines) <= ShownComponents
        /\ \A n \in DOMAIN lines :
            /\ Len(lines[n].nodes) <= ShownNodes
            /\ Len(prompt_components[lines[n].index]) > ShownNodes =>
                   /\ lines[n].ellipsis
                   /\ lines[n].total
                          = Some(Len(prompt_components[lines[n].index]))

(***************************************************************************)
(* C26. The iterations list of the returned metadata holds one record per  *)
(* provider call made by connectivity_strategy, numbered 1, 2, ... in call *)
(* order; at most one record has status failed and it is the last;         *)
(* partial_result is true exactly when there is a failed record.           *)
(***************************************************************************)
FailedAt(iters) == {k \in DOMAIN iters : iters[k].status = "failed"}

C26_OneRecordPerCall ==
    pc = "returned" =>
        LET iters == ReturnedMetadata.iterations IN
        /\ Len(iters) = augmentation_calls
        /\ \A k \in DOMAIN iters : iters[k].iteration = k
        /\ FailedAt(iters) \subseteq {Len(iters)}
        /\ ReturnedMetadata.partial_result <=> FailedAt(iters) # {}

\* Returned after two provider calls, the second of which raised
C26_Witness ==
    /\ pc = "returned"
    /\ augmentation_calls = 2
    /\ FailedAt(ReturnedMetadata.iterations) = {2}

(***************************************************************************)
(* C27. Whichever way connectivity_strategy ends, the returned list is as  *)
(* long as the starting list plus the sum of new_triples_count over the    *)
(* records with status success; an iteration whose items are all invalid   *)
(* is a success with new_triples_count 0 and adds nothing; a failed        *)
(* iteration adds nothing.                                                 *)
(***************************************************************************)
\* The sum of new_triples_count over the success records
RECURSIVE SumNewTriples(_)
SumNewTriples(iters) ==
    IF iters = << >> THEN 0
    ELSE (IF Head(iters).status = "success" THEN Head(iters).new_triples_count
          ELSE 0) + SumNewTriples(Tail(iters))

\* The provider returned items in the last iteration and none was valid
LastAllInvalid ==
    /\ augmentation_calls > 0
    /\ last_call # None /\ last_call[1].ok
    /\ \A n \in DOMAIN last_call[1].val : ~Triple(last_call[1].val[n]).ok

C27_LengthIsSumOfCounts ==
    pc = "returned" =>
        LET iters == ReturnedMetadata.iterations IN
        /\ Len(ReturnedTriples) = Len(triples) + SumNewTriples(iters)
        /\ LastAllInvalid =>
               /\ iters[Len(iters)].status = "success"
               /\ iters[Len(iters)].new_triples_count = 0
               /\ ReturnedTriples = AccumulatedBefore(Len(iters))
        /\ AugmentationRaised =>
               ReturnedTriples = AccumulatedBefore(Len(iters))

\* Returned after an iteration that appended something and a last one whose
\* items, not none, were all invalid
C27_Witness ==
    /\ pc = "returned"
    /\ augmentation_calls = 2
    /\ LastAllInvalid
    /\ last_call[1].val # << >>
    /\ ReturnedMetadata.iterations[1].new_triples_count > 0

(***************************************************************************)
(* C28. final_components is the weakly-connected-component count of the    *)
(* returned list; and when connectivity_strategy returns with              *)
(* partial_result false and fewer than max_iterations records,             *)
(* final_components <= max_disconnected: the loop stops early only for a   *)
(* failure or for the target met.                                          *)
(***************************************************************************)
C28_FinalComponents ==
    pc = "returned" =>
        /\ ReturnedMetadata.final_components
               = Cardinality(Classes(ReturnedTriples))
        /\ (/\ ~ReturnedMetadata.partial_result
            /\ Len(ReturnedMetadata.iterations) < max_iterations) =>
               ReturnedMetadata.final_components <= max_disconnected

\* Returned early, the target met by what the first iteration appended
C28_Witness ==
    /\ pc = "returned"
    /\ ~ReturnedMetadata.partial_result
    /\ Len(ReturnedMetadata.iterations) = 1
    /\ max_iterations = 2
    /\ ReturnedMetadata.iterations[1].components_before > max_disconnected

(***************************************************************************)
(* C29. extract_connected_graph called with a strategy name that is not    *)
(* registered and with no initial_triples fails before any provider call   *)
(* is made.                                                                *)
(***************************************************************************)
C29_UnknownStrategyCostsNoCall ==
    (/\ pc = "raised"
     /\ augmentation_strategy \notin STRATEGIES
     /\ ~InitialProvided(initial_triples)
     /\ error = "ValueError") =>
        extraction_calls + augmentation_calls = 0

(***************************************************************************)
(* C30. In the class-based engine,                                         *)
(* KnowledgeGraphExtractor.extract_connected_graph, the loop ends after at *)
(* most max_iterations generate_json calls, final_state.stop_reason is     *)
(* never null, and final_state.iterations_used is the number of refinement *)
(* iterations carried out: the number of generate_json calls made and of   *)
(* refinement_iterations records, also when the loop stops early for no    *)
(* new triples or no connectivity improvement.                             *)
(***************************************************************************)
C30_IterationsUsedCountsCalls ==
    /\ generate_json_calls <= kge_args.max_iterations
    /\ kge_pc = "returned" =>
        /\ kge_metadata.final_state.stop_reason # None
        /\ kge_metadata.final_state.iterations_used = generate_json_calls
        /\ Len(kge_metadata.refinement_iterations) = generate_json_calls

====
